---- MODULE Spec2Model ----
(***************************************************************************)
(* Model of fluke_thermal_reader: the .is2 decode pipeline of              *)
(* IS2Parser.parse (parsers.py) and the camera profile registry            *)
(* (camera_profiles.py).                                                   *)
(*                                                                         *)
(* Text is modelled as sequences of character codes (latin-1), numbers     *)
(* with a fractional part as integers in thousandths, and an absent dict   *)
(* key as an option record [has |-> FALSE].                                *)
(***************************************************************************)
EXTENDS Integers, Sequences, FiniteSets, TLC

VARIABLES
    zip,    \* per call: the container (.is2 archive) handed to parse
    pc,     \* per call: position inside IS2Parser.parse
    ir,     \* per call: the result dict being filled
    fs,     \* the scratch directory "temp_fluke_reader", shared by every call
    xi,     \* per call: the last archive member extractall has written
    foreign, \* per call: a handler looked at a file another call extracted
    fin,    \* argument of a stand-alone function call
    fout    \* result of a stand-alone function call

vars == <<zip, pc, ir, fs, xi, foreign, fin, fout>>

----------------------------------------------------------------------------
(* Generic helpers *)

SetMin(S) == CHOOSE x \in S : \A y \in S : x <= y
SetMax(S) == CHOOSE x \in S : \A y \in S : x >= y

None == [has |-> FALSE, v |-> 0]
Some(x) == [has |-> TRUE, v |-> x]

\* Python `needle in s` / bytes `needle in raw`
IsSubstr(needle, s) ==
    \E i \in 0..(Len(s) - Len(needle)) : SubSeq(s, i + 1, i + Len(needle)) = needle

\* Python s.startswith(prefix)
StartsWith(s, prefix) ==
    Len(prefix) <= Len(s) /\ SubSeq(s, 1, Len(prefix)) = prefix

\* characters str.strip() removes (whitespace of a latin-1 decoded str)
Whitespace == {9, 10, 11, 12, 13, 28, 29, 30, 31, 32, 133, 160}
\* characters of "- \t"
DashSpaceTab == {45, 32, 9}

\* Python s.strip()
Strip(s) ==
    LET keep == {i \in 1..Len(s) : s[i] \notin Whitespace}
    IN IF keep = {} THEN <<>> ELSE SubSeq(s, SetMin(keep), SetMax(keep))

\* Python s.rstrip(chars)
RStrip(s, chars) ==
    LET keep == {i \in 1..Len(s) : s[i] \notin chars}
    IN IF keep = {} THEN <<>> ELSE SubSeq(s, 1, SetMax(keep))

\* Python str.isprintable() on latin-1 text
IsPrintable(s) ==
    \A i \in 1..Len(s) : s[i] \in (32..126) \cup (161..172) \cup (174..255)

\* Python slice raw[a:b] (0-based, end exclusive, clipped to the buffer)
Slice(raw, a, b) ==
    IF a >= Len(raw) THEN <<>>
    ELSE SubSeq(raw, a + 1, IF b <= Len(raw) THEN b ELSE Len(raw))

----------------------------------------------------------------------------
(* camera_profiles.py: the registry *)

TiS75Plus == <<84, 105, 83, 55, 53, 43>>     \* "TiS75+"
Ti480P == <<84, 105, 52, 56, 48, 80>>        \* "Ti480P"
Ti300 == <<84, 105, 51, 48, 48>>             \* "Ti300"
UnknownName == <<85, 110, 107, 110, 111, 119, 110>>   \* "Unknown"
QuestionMark == <<63>>                       \* "?"

\* _profile_ir_data(canonical_name, width, height)
ProfileIrData(canonical_name, width, height) ==
    [ name |-> canonical_name,
      ciLayout |-> "latin_97_103",
      ciMinBytes |-> 124,
      iiLayout |-> "33_47",
      iiMinBytes |-> 47,
      iiTempRange |-> FALSE,
      dims |-> <<width, height>>,
      offsetKey |-> "width",
      accept |-> FALSE,
      sizesOrder |-> << <<width, height>> >> ]

ProfileTiS75Plus ==
    [ name |-> TiS75Plus,
      ciLayout |-> "none",
      ciMinBytes |-> 0,
      iiLayout |-> "tis75",
      iiMinBytes |-> 47,
      iiTempRange |-> TRUE,
      dims |-> <<384, 288>>,
      offsetKey |-> "width",
      accept |-> TRUE,
      sizesOrder |-> << <<384, 288>> >> ]

\* CAMERA_PROFILES, in key order (= detection order)
CameraProfiles ==
    << ProfileTiS75Plus,
       ProfileIrData(Ti480P, 640, 480),
       ProfileIrData(Ti300, 320, 240) >>

\* the value standing for "no profile" where a call raised
NoProfile == ProfileIrData(<<>>, 0, 0)

----------------------------------------------------------------------------
(* camera_profiles.py: get_camera_profile *)

\* the loop of lines 204-208: which registry entries match the cleaned name
ProfileMatchesAt(model, k) ==
    IsSubstr(CameraProfiles[k].name, model) \/ StartsWith(model, CameraProfiles[k].name)

\* a wrong loop that keeps the last match instead of breaking at the first
PickProfileIndexLast(model) ==
    LET hits == {k \in 1..Len(CameraProfiles) : ProfileMatchesAt(model, k)}
    IN IF hits = {} THEN 0 ELSE SetMax(hits)

\* index of the profile the loop stops at, 0 when it finds none
PickProfileIndex(model) ==
    LET hits == {k \in 1..Len(CameraProfiles) : ProfileMatchesAt(model, k)}
    IN IF hits = {} THEN 0 ELSE SetMin(hits)

\* lines 200-202: the cleaned model name; None is the empty sequence
CleanModel(camera_model) ==
    LET m == RStrip(Strip(camera_model), DashSpaceTab)
    IN IF m \in {QuestionMark, UnknownName, <<>>} THEN <<>> ELSE m

GetCameraProfile(camera_model, has_ir_data, has_caltempdatarex) ==
    LET model == CleanModel(camera_model)
        k == PickProfileIndex(model)
        dflt == ProfileIrData(IF model = <<>> THEN UnknownName ELSE model, 320, 240)
    IN IF k # 0 THEN [err |-> "", errModel |-> <<>>, prof |-> CameraProfiles[k]]
       ELSE IF has_ir_data THEN [err |-> "", errModel |-> <<>>, prof |-> dflt]
       ELSE IF has_caltempdatarex
            THEN [err |-> "UnsupportedCamera: unknown model, CalTempDataRex only",
                  errModel |-> model, prof |-> NoProfile]
       ELSE [err |-> "", errModel |-> <<>>, prof |-> dflt]

----------------------------------------------------------------------------
(* camera_profiles.py: detect_model_from_camera_info *)

\* lines 178-180: first registry name related to the slice, 0 when none
SliceMatchIndex(model_slice) ==
    LET hits == {k \in 1..Len(CameraProfiles) :
                    \/ IsSubstr(CameraProfiles[k].name, model_slice)
                    \/ IsSubstr(model_slice, CameraProfiles[k].name)}
    IN IF hits = {} THEN 0 ELSE SetMin(hits)

\* result: the detected name, or the empty sequence for None
DetectModelFromCameraInfo(raw) ==
    LET needles == {k \in 1..Len(CameraProfiles) : IsSubstr(CameraProfiles[k].name, raw)}
        model_slice == RStrip(Strip(Slice(raw, 97, 103)), DashSpaceTab)
        k2 == SliceMatchIndex(model_slice)
    IN IF raw = <<>> THEN <<>>
       ELSE IF needles # {} THEN CameraProfiles[SetMin(needles)].name
       ELSE IF Len(raw) >= 103
            THEN IF k2 # 0 THEN CameraProfiles[k2].name
                 ELSE IF model_slice # <<>> /\ IsPrintable(model_slice) THEN model_slice
                 ELSE <<>>
       ELSE <<>>

----------------------------------------------------------------------------
(* The container and the scratch directory *)

\* the calls to parse that may run (one decode per file)
Procs == {1, 2}

\* names of the files in Images/Main that end in an image extension:
\* "00800060.jpg" (128 x 96, height below 100), "014000F0.JPG" (320 x 240),
\* "00a00078.jpg" (160 x 120), "10010100.jpg" (4097 x 256, width above 4096),
\* "IMG00001.jpg" (no hexadecimal stem), "0800060.jpg" (7 characters) and
\* "014000F0.png" (not a JPG)
JpgName(m) ==
    CASE m = "jpg1" -> [stem |-> <<48, 48, 56, 48, 48, 48, 54, 48>>, ext |-> <<46, 106, 112, 103>>]
      [] m = "jpg2" -> [stem |-> <<48, 49, 52, 48, 48, 48, 70, 48>>, ext |-> <<46, 74, 80, 71>>]
      [] m = "jpg3" -> [stem |-> <<48, 48, 97, 48, 48, 48, 55, 56>>, ext |-> <<46, 106, 112, 103>>]
      [] m = "jpg4" -> [stem |-> <<49, 48, 48, 49, 48, 49, 48, 48>>, ext |-> <<46, 106, 112, 103>>]
      [] m = "jpg5" -> [stem |-> <<73, 77, 71, 48, 48, 48, 48, 49>>, ext |-> <<46, 106, 112, 103>>]
      [] m = "jpg6" -> [stem |-> <<48, 56, 48, 48, 48, 54, 48>>, ext |-> <<46, 106, 112, 103>>]
      [] m = "jpg7" -> [stem |-> <<48, 49, 52, 48, 48, 48, 70, 48>>, ext |-> <<46, 112, 110, 103>>]

\* the files of Images/Main other than IR.data and IRImageInfo.gpbenc, in
\* the order os.listdir returns them
MainImages == <<"jpg1", "jpg2", "jpg3", "jpg4", "jpg5", "jpg6", "jpg7">>

\* every member a container may hold, in archive order:
\* CameraInfo.gpbenc, ImageProperties.json, metadata.json,
\* CalibrationData.gpbenc, Images/Main/IRImageInfo.gpbenc, Images/Main/IR.data,
\* CalTempDataRex.gpbenc, the main images, Thumbnails/thumb.jpg
MemberOrder ==
    <<"camInfo", "props", "meta", "cal", "imgInfo", "irData", "calTemp">>
    \o MainImages \o <<"thumb">>

Members == {MemberOrder[i] : i \in 1..Len(MemberOrder)}

\* a member that is not there; v is unused and keeps the shape of the
\* member's content
Absent(m) ==
    [has |-> FALSE,
     v |-> CASE m = "camInfo" -> <<>>
             [] m \in {"props", "meta"} ->
                    [decodable |-> FALSE, vlBad |-> FALSE,
                     w |-> [kind |-> "missing", v |-> 0], h |-> [kind |-> "missing", v |-> 0],
                     emis |-> [kind |-> "missing", v |-> 0], bg |-> [kind |-> "missing", v |-> 0],
                     trans |-> [kind |-> "missing", v |-> 0],
                     tmin |-> [kind |-> "missing", v |-> 0], tmax |-> [kind |-> "missing", v |-> 0],
                     tavg |-> [kind |-> "missing", v |-> 0], tctr |-> [kind |-> "missing", v |-> 0]]
             [] m = "cal" -> [segs |-> <<>>, tailMagic |-> FALSE]
             [] m = "imgInfo" -> [len |-> 0, f33 |-> 0, f38 |-> 0, f43 |-> 0]
             [] m = "irData" -> [n |-> 0, ew |-> 0, eh |-> 0]
             [] m = "calTemp" -> [len |-> 0, spans |-> <<>>]
             [] OTHER -> 0]

\* a container without members
EmptyFiles == [m \in Members |-> Absent(m)]

\* the scratch directory before any call: it does not exist
FsInit == [dir |-> FALSE, own |-> [m \in Members |-> 0]]

\* what a call finds in the scratch directory: each file that is there, with
\* the content its owner's container gave it
View(f, z) ==
    [m \in Members |-> IF f.own[m] = 0 THEN Absent(m) ELSE z[f.own[m]].files[m]]

\* the scratch directory of a call that runs alone on container c
AloneView(c) == [m \in Members |-> c.files[m]]

----------------------------------------------------------------------------
(* The result dict ir *)

NoSize == [has |-> FALSE, w |-> 0, h |-> 0]
SizeOf(w, h) == [has |-> TRUE, w |-> w, h |-> h]

NoData == [has |-> FALSE, w |-> 0, h |-> 0, n |-> 0, mode |-> "",
           eps |-> 0, tau |-> 0, bg |-> 0, lo |-> 0, hi |-> 0]

\* what the payload step saw, kept beside the result: which payload path ran,
\* the geometry it started from, the samples after the header, and the
\* candidate sizes of the scanned-blob path
NoGeom ==
    [path |-> "", declW |-> 0, declH |-> 0, avail |-> 0, cands |-> <<>>,
     kind |-> "none", span |-> 0, first |-> 0, count |-> 0]

\* parsers.py line 45: ir = {"FileName": ...}; every other key is absent
IrInit ==
    [ err |-> "",
      errModel |-> <<>>,
      CameraModel |-> <<>>,
      CameraManufacturer |-> <<>>,
      EngineSerial |-> <<>>,
      CameraSerial |-> <<>>,
      profile |-> NoProfile,
      IRWidth |-> None,
      IRHeight |-> None,
      size |-> NoSize,
      MinTemp |-> None,
      MaxTemp |-> None,
      AvgTemp |-> None,
      CenterTemp |-> None,
      BackgroundTemp |-> None,
      Emissivity |-> None,
      transmission |-> None,
      Transmission |-> None,
      TempRangeMin |-> None,
      TempRangeMax |-> None,
      conversion |-> << >>,
      calibration_placeholder |-> FALSE,
      data |-> NoData,
      thermal_source |-> "",
      thumbnail_path |-> "",
      photo_path |-> "",
      geom |-> NoGeom ]

Raise(r, msg) == [r EXCEPT !.err = msg]

\* the errors raised as UnsupportedCameraError, whose message ends with
\* GITHUB_MESSAGE; the others are plain Exception objects
UnsupportedCameraErrors ==
    {"UnsupportedCamera: unknown model, CalTempDataRex only",
     "UnsupportedCamera: CalibrationData.gpbenc without magic bytes",
     "UnsupportedCamera: no valid calibration curves",
     "UnsupportedCamera: no thermal payload found",
     "UnsupportedCamera: could not extract thermal payload from CalTempDataRex.gpbenc"}

----------------------------------------------------------------------------
(* parsers.py: _detect_camera_model, _resolve_camera_profile, _read_camera_info *)

\* _detect_camera_model: CameraModel is set only when detection gives a name
DetectCameraModel(r, d) ==
    IF ~d["camInfo"].has THEN r
    ELSE LET model == DetectModelFromCameraInfo(d["camInfo"].v)
         IN IF model # <<>> THEN [r EXCEPT !.CameraModel = model] ELSE r

\* _resolve_camera_profile
ResolveCameraProfile(r, d) ==
    LET g == GetCameraProfile(r.CameraModel, d["irData"].has, d["calTemp"].has)
    IN IF g.err # "" THEN [r EXCEPT !.err = g.err, !.errModel = g.errModel]
       ELSE [r EXCEPT !.profile = g.prof]

\* one field of the classic layout: text[start:end].strip(), None when the
\* text is too short or the value is empty
CameraInfoField(text, start, end, isModel) ==
    LET val == Strip(Slice(text, start, end))
        val2 == IF isModel THEN RStrip(val, DashSpaceTab) ELSE val
    IN IF end <= Len(text) THEN val2 ELSE <<>>

\* _read_camera_info without the length test of line 163
ReadCameraInfoNoMin(r, d) ==
    LET raw == d["camInfo"].v
        Upd(old, new) == IF new # <<>> THEN new ELSE old
    IN IF ~d["camInfo"].has THEN r
       ELSE IF r.profile.ciLayout = "none" THEN r
       ELSE [r EXCEPT
               !.CameraManufacturer = Upd(@, CameraInfoField(raw, 76, 94, FALSE)),
               !.CameraModel = Upd(@, CameraInfoField(raw, 97, 103, TRUE)),
               !.EngineSerial = Upd(@, CameraInfoField(raw, 104, 112, FALSE)),
               !.CameraSerial = Upd(@, CameraInfoField(raw, 115, 124, FALSE))]

\* _read_camera_info
ReadCameraInfo(r, d) ==
    LET raw == d["camInfo"].v
        Upd(old, new) == IF new # <<>> THEN new ELSE old
    IN IF ~d["camInfo"].has THEN r
       ELSE IF r.profile.ciLayout = "none" THEN r
       ELSE IF Len(raw) < r.profile.ciMinBytes THEN r
       ELSE [r EXCEPT
               !.CameraManufacturer = Upd(@, CameraInfoField(raw, 76, 94, FALSE)),
               !.CameraModel = Upd(@, CameraInfoField(raw, 97, 103, TRUE)),
               !.EngineSerial = Upd(@, CameraInfoField(raw, 104, 112, FALSE)),
               !.CameraSerial = Upd(@, CameraInfoField(raw, 115, 124, FALSE))]

----------------------------------------------------------------------------
(* parsers.py: _read_image_properties and the main-image filename hint *)

\* A JSON value of the metadata file: kind "missing" (key absent or null),
\* "num" (a number, v in the unit of the field) or "bad" (a text that
\* int()/float() refuses).
Missing == [kind |-> "missing", v |-> 0]
Num(x) == [kind |-> "num", v |-> x]
Bad == [kind |-> "bad", v |-> 0]

\* lines 239-242: float(val) if val is not None else def_val, def_val on ValueError
FloatOr(val, def_val) == IF val.kind = "num" THEN val.v ELSE def_val

\* lines 218-225: int(w) if w is not None else 640, 640 on ValueError
IntOr(val, def_val) == IF val.kind = "num" THEN val.v ELSE def_val

\* value of one hexadecimal digit, -1 for any other character
HexDigit(c) ==
    IF c \in 48..57 THEN c - 48
    ELSE IF c \in 65..70 THEN c - 55
    ELSE IF c \in 97..102 THEN c - 87
    ELSE -1

\* int(s, 16) of four hexadecimal digits, -1 where it raises ValueError
Hex4(s) ==
    IF \E i \in 1..4 : HexDigit(s[i]) < 0 THEN -1
    ELSE HexDigit(s[1]) * 4096 + HexDigit(s[2]) * 256 + HexDigit(s[3]) * 16 + HexDigit(s[4])

\* name.lower().endswith('.jpg')
IsJpg(m) ==
    LET e == JpgName(m).ext
    IN [i \in 1..Len(e) |-> IF e[i] \in 65..90 THEN e[i] + 32 ELSE e[i]] = <<46, 106, 112, 103>>

\* lines 272-283 / 300-311: the (w, h) a file name encodes, NoSize when the
\* name is skipped
StemDims(m) ==
    LET stem == JpgName(m).stem
        w_hex == Hex4(SubSeq(stem, 1, 4))
        h_hex == Hex4(SubSeq(stem, 5, 8))
    IN IF ~IsJpg(m) \/ Len(stem) # 8 THEN NoSize
       ELSE IF w_hex < 0 \/ h_hex < 0 THEN NoSize
       ELSE IF w_hex < 100 \/ w_hex > 4096 \/ h_hex < 100 \/ h_hex > 4096 THEN NoSize
       ELSE SizeOf(w_hex, h_hex)

\* _get_main_image_dimensions_hint: the dimensions named by the largest file
\* (size > best_size, best_size starting at 0) among the accepted names
BestMainImage(d) ==
    LET ok == {i \in 1..Len(MainImages) :
                  /\ d[MainImages[i]].has /\ StemDims(MainImages[i]).has
                  /\ d[MainImages[i]].v > 0}
        best == {i \in ok : \A k \in ok :
                    \/ d[MainImages[k]].v < d[MainImages[i]].v
                    \/ (d[MainImages[k]].v = d[MainImages[i]].v /\ k >= i)}
    IN IF best = {} THEN NoSize ELSE StemDims(MainImages[SetMin(best)])

\* a wrong guard that lets the hint replace any metadata dimensions
InferDimensionsAlways(r, d) ==
    LET best == BestMainImage(d)
    IN IF best.has
       THEN [r EXCEPT !.IRWidth = Some(best.w), !.IRHeight = Some(best.h),
                      !.size = SizeOf(best.w, best.h)]
       ELSE r

\* _infer_dimensions_from_main_image (the same scan as BestMainImage)
InferDimensionsFromMainImage(r, d) ==
    LET best == BestMainImage(d)
    IN IF /\ r.IRWidth.has /\ r.IRWidth.v # 0
          /\ r.IRHeight.has /\ r.IRHeight.v # 0
          /\ <<r.IRWidth.v, r.IRHeight.v>> # <<640, 480>>
       THEN r
       ELSE IF best.has
       THEN [r EXCEPT !.IRWidth = Some(best.w), !.IRHeight = Some(best.h),
                      !.size = SizeOf(best.w, best.h)]
       ELSE r

\* lines 205-257 for one decoded file; vlBad is a VLWidth/VLHeight value that
\* int() refuses: the exception leaves IRWidth/IRHeight set and nothing else.
\* The files carry no maker, model or serial key (lines 206-215 then leave ir
\* as it is); the visible-light sizes and the text fields are not kept.
ApplyProps(r, props) ==
    LET w == IntOr(props.w, 640)
        h == IntOr(props.h, 480)
    IN IF props.vlBad
       THEN [r EXCEPT !.IRWidth = Some(w), !.IRHeight = Some(h)]
       ELSE [r EXCEPT
               !.IRWidth = Some(w),
               !.IRHeight = Some(h),
               !.size = SizeOf(w, h),
               !.MinTemp = Some(FloatOr(props.tmin, 0)),
               !.MaxTemp = Some(FloatOr(props.tmax, 0)),
               !.AvgTemp = Some(FloatOr(props.tavg, 0)),
               !.CenterTemp = Some(FloatOr(props.tctr, 0)),
               !.BackgroundTemp = Some(FloatOr(props.bg, 20000)),
               !.Emissivity = Some(FloatOr(props.emis, 950)),
               !.transmission = IF props.trans.kind = "num" THEN Some(props.trans.v) ELSE @]

\* lines 191-261: the first file that exists, decodes and raises nothing ends
\* the loop
ReadPropsFiles(r, d) ==
    LET Usable(f) == d[f].has /\ d[f].v.decodable
        r1 == IF Usable("props") THEN ApplyProps(r, d["props"].v) ELSE r
    IN IF Usable("props") /\ ~d["props"].v.vlBad THEN r1
       ELSE IF Usable("meta") THEN ApplyProps(r1, d["meta"].v)
       ELSE r1

\* _read_image_properties
ReadImageProperties(r, d) == InferDimensionsFromMainImage(ReadPropsFiles(r, d), d)

----------------------------------------------------------------------------
(* parsers.py: _read_calibration_data *)

\* CalibrationData.gpbenc is modelled by what the scan sees in it:
\*   segs      the 24-byte curve parts that follow a magic tag (74,25,13) with
\*             all 24 bytes inside the buffer, in buffer order; each has the
\*             floats lo (bytes 0..4), hiA (bytes 5..9, layout 0), hiB (bytes
\*             4..8, layout 1), c (10..14), b (15..19), a (20..24), here
\*             integer-valued
\*   tailMagic a magic tag in the last 26 bytes, too late for a curve part
SegHi(seg, layout) == IF layout = 0 THEN seg.hiA ELSE seg.hiB

IsPlaceholderCoeffs(seg) == seg.a = -1 /\ seg.b = -1 /\ seg.c = -1

\* calc_equation([a, b, c], t) for one endpoint
CalcEquation(seg, t) == seg.a * t * t + seg.b * t + seg.c

\* lines 363-373: the tests a curve part passes before it is evaluated
PassesCurveTests(seg, layout) ==
    /\ ~(seg.lo >= SegHi(seg, layout))
    /\ seg.a # 0
    /\ ~IsPlaceholderCoeffs(seg)
    /\ ~(seg.lo = -1 /\ SegHi(seg, layout) = -1)

\* line 387: -273.2 <= t_rad <= 3000 for t_rad = (-b + sqrt(disc)) / (2a),
\* decided exactly on the integers
TRadInRange(seg, disc) ==
    LET q == 2 * seg.a
        R == 3000 * q + seg.b
        L == 5 * seg.b - 1366 * q
    IN IF seg.a > 0
       THEN /\ R >= 0 /\ disc <= R * R
            /\ (L <= 0 \/ 25 * disc >= L * L)
       ELSE /\ (R <= 0 \/ disc >= R * R)
            /\ L >= 0 /\ 25 * disc <= L * L

\* lines 374-388: the counts j one curve part stores a temperature for
SegKeys(seg, layout) ==
    LET j_lo == CalcEquation(seg, seg.lo)
        j_hi == CalcEquation(seg, SegHi(seg, layout))
        stop == IF j_hi < j_lo + 65536 THEN j_hi ELSE j_lo + 65536
    IN IF ~PassesCurveTests(seg, layout) \/ j_lo >= j_hi THEN {}
       ELSE {j \in j_lo..(stop - 1) :
                LET disc == seg.b * seg.b - 4 * seg.a * (seg.c - j)
                IN disc >= 0 /\ TRadInRange(seg, disc)}

\* the table one pass over the buffer builds: ir['conversion'][j] = t_rad,
\* a later curve part writing over an earlier one; the value kept for j is
\* the curve that produced t_rad
BuildTable(segs, layout) ==
    LET keys == UNION {SegKeys(segs[i], layout) : i \in 1..Len(segs)}
    IN [j \in keys |->
          LET i == SetMax({k \in 1..Len(segs) : j \in SegKeys(segs[k], layout)})
          IN [a |-> segs[i].a, b |-> segs[i].b, c |-> segs[i].c]]

\* lines 350-352: layout 0 over the whole buffer, layout 1 only if that gave
\* nothing
ScanTable(segs) ==
    LET t0 == BuildTable(segs, 0)
    IN IF DOMAIN t0 # {} THEN t0 ELSE BuildTable(segs, 1)

\* _read_calibration_data with the placeholder taken for every profile
ReadCalibrationDataAnyProfile(r, d) ==
    LET cal == d["cal"].v
        conv == ScanTable(cal.segs)
        has_magic == cal.segs # <<>> \/ cal.tailMagic
    IN IF ~d["cal"].has THEN Raise(r, "CalibrationData.gpbenc not found")
       ELSE IF DOMAIN conv # {} THEN [r EXCEPT !.conversion = conv]
       ELSE IF ~has_magic
            THEN Raise(r, "UnsupportedCamera: CalibrationData.gpbenc without magic bytes")
       ELSE IF cal.segs # <<>> /\ IsPlaceholderCoeffs(cal.segs[1])
            THEN [r EXCEPT !.calibration_placeholder = TRUE]
       ELSE Raise(r, "UnsupportedCamera: no valid calibration curves")

\* _read_calibration_data
ReadCalibrationData(r, d) ==
    LET cal == d["cal"].v
        conv == ScanTable(cal.segs)
        has_magic == cal.segs # <<>> \/ cal.tailMagic
    IN IF ~d["cal"].has THEN Raise(r, "CalibrationData.gpbenc not found")
       ELSE IF DOMAIN conv # {} THEN [r EXCEPT !.conversion = conv]
       ELSE IF ~has_magic
            THEN Raise(r, "UnsupportedCamera: CalibrationData.gpbenc without magic bytes")
       ELSE IF cal.segs # <<>> /\ IsPlaceholderCoeffs(cal.segs[1]) /\ r.profile.accept
            THEN [r EXCEPT !.calibration_placeholder = TRUE]
       ELSE Raise(r, "UnsupportedCamera: no valid calibration curves")

----------------------------------------------------------------------------
(* parsers.py: _read_ir_image_info *)

\* IRImageInfo.gpbenc is modelled by its length and the three floats at
\* bytes 33..37, 38..42 and 43..47 (thousandths)

\* _read_ir_image_info
ReadIrImageInfo(r, d) ==
    LET info == d["imgInfo"].v
        transmission == info.f43
        emissivity == IF r.profile.iiLayout = "tis75" THEN info.f43 ELSE info.f33
        backgroundtemperature == info.f38
        r1 == [r EXCEPT
                 !.Emissivity = IF @.has THEN @ ELSE Some(emissivity),
                 !.Transmission = IF @.has THEN @
                                  ELSE IF 0 < transmission /\ transmission <= 1000
                                       THEN Some(transmission) ELSE Some(1000),
                 !.BackgroundTemp = IF @.has THEN @ ELSE Some(backgroundtemperature)]
    IN IF ~d["imgInfo"].has THEN r
       ELSE IF info.len < r.profile.iiMinBytes THEN r
       ELSE IF r.profile.iiTempRange
            THEN [r1 EXCEPT !.TempRangeMin = Some(info.f38), !.TempRangeMax = Some(info.f33)]
       ELSE r1

----------------------------------------------------------------------------
(* parsers.py: the linear fallback window and the two payload readers *)

\* a wrong choice that prefers the metadata min/max to the range hint
LinearWindowMetaFirst(r) ==
    LET bg == IF r.BackgroundTemp.has THEN r.BackgroundTemp.v ELSE 20000
    IN IF r.MinTemp.has /\ r.MaxTemp.has /\ r.MinTemp.v < r.MaxTemp.v
       THEN [mode |-> "minmax", lo |-> r.MinTemp.v, hi |-> r.MaxTemp.v, bg |-> bg]
       ELSE IF r.TempRangeMin.has /\ r.TempRangeMax.has /\ r.TempRangeMin.v < r.TempRangeMax.v
       THEN [mode |-> "range", lo |-> r.TempRangeMin.v, hi |-> r.TempRangeMax.v, bg |-> bg]
       ELSE [mode |-> "background", lo |-> bg - 20000, hi |-> bg + 35000, bg |-> bg]

\* lines 498-508 / 570-580: which window the linear fallback maps into
LinearWindow(r) ==
    LET bg == IF r.BackgroundTemp.has THEN r.BackgroundTemp.v ELSE 20000
    IN IF r.TempRangeMin.has /\ r.TempRangeMax.has /\ r.TempRangeMin.v < r.TempRangeMax.v
       THEN [mode |-> "range", lo |-> r.TempRangeMin.v, hi |-> r.TempRangeMax.v, bg |-> bg]
       ELSE IF r.MinTemp.has /\ r.MaxTemp.has /\ r.MinTemp.v < r.MaxTemp.v
       THEN [mode |-> "minmax", lo |-> r.MinTemp.v, hi |-> r.MaxTemp.v, bg |-> bg]
       ELSE [mode |-> "background", lo |-> bg - 20000, hi |-> bg + 35000, bg |-> bg]

\* max(1e-6, min(1.0, x)) in thousandths; 0 stands for the floor 1e-6
ClampUnit(x) == IF x >= 1000 THEN 1000 ELSE IF x <= 0 THEN 0 ELSE x

\* line 489: the widths tried, in order
PlausibleWidths == <<320, 384, 640, 256, 160>>

\* a wrong search that accepts no width
DivisorIndexNever(n_actual) == 0

\* lines 489-496: index of the first width that divides n_actual with a
\* height in [1, 10000], 0 when there is none
DivisorIndex(n_actual) ==
    LET hits == {k \in 1..Len(PlausibleWidths) :
                    /\ n_actual % PlausibleWidths[k] = 0
                    /\ 1 <= n_actual \div PlausibleWidths[k]
                    /\ n_actual \div PlausibleWidths[k] <= 10000}
    IN IF hits = {} THEN 0 ELSE SetMin(hits)

\* lines 472-476: the size after looking at the embedded header d[192], d[193]
EmbeddedSize(r, buf) ==
    IF r.size.has /\ r.size.w # 0 /\ r.size.h # 0 THEN r.size
    ELSE IF buf.n > 193 /\ buf.ew > 0 /\ buf.eh > 0 THEN SizeOf(buf.ew, buf.eh)
    ELSE r.size

\* the temperature array: its shape, the converter that made it and the
\* parameters the converter used
DataOf(r, w, h, n) ==
    IF DOMAIN r.conversion = {}
    THEN LET win == LinearWindow(r)
         IN [has |-> TRUE, w |-> w, h |-> h, n |-> n, mode |-> win.mode,
             eps |-> 0, tau |-> 0, bg |-> win.bg, lo |-> win.lo, hi |-> win.hi]
    ELSE [has |-> TRUE, w |-> w, h |-> h, n |-> n, mode |-> "lut",
          eps |-> ClampUnit(IF r.Emissivity.has THEN r.Emissivity.v ELSE 950),
          tau |-> ClampUnit(IF r.Transmission.has THEN r.Transmission.v
                            ELSE IF r.transmission.has THEN r.transmission.v ELSE 1000),
          bg |-> IF r.BackgroundTemp.has THEN r.BackgroundTemp.v ELSE 20000,
          lo |-> 0, hi |-> 0]

\* len(d[offset:offset + n_pixels]) for a buffer of n samples
SliceLen(n, offset, n_pixels) ==
    (IF offset + n_pixels < n THEN offset + n_pixels ELSE n) - (IF offset < n THEN offset ELSE n)

\* lines 488-529: the geometry after the divisor search (k is the index of the
\* width found, 0 for none), the reshape and the conversion
ReshapeFixed(r, buf, size, offset, n_actual, k) ==
    LET w == IF k # 0 THEN PlausibleWidths[k] ELSE size.w
        h == IF k # 0 THEN n_actual \div PlausibleWidths[k] ELSE size.h
        seen == [path |-> "fixed", declW |-> size.w, declH |-> size.h,
                 avail |-> IF offset < buf.n THEN buf.n - offset ELSE 0,
                 cands |-> <<>>, kind |-> "fixed", span |-> 0, first |-> 2 * offset,
                 count |-> n_actual]
    IN IF n_actual # w * h
       THEN Raise([r EXCEPT !.size = size, !.geom = seen], "ValueError: cannot reshape array")
       ELSE [r EXCEPT !.size = SizeOf(w, h),
                      !.IRWidth = IF k # 0 THEN Some(w) ELSE @,
                      !.IRHeight = IF k # 0 THEN Some(h) ELSE @,
                      !.geom = seen,
                      !.data = DataOf(r, w, h, n_actual)]

\* lines 479-487: the header offset and the slice
SliceFixed(r, buf, size, offset) ==
    ReshapeFixed(r, buf, size, offset, SliceLen(buf.n, offset, size.w * size.h),
                 IF SliceLen(buf.n, offset, size.w * size.h) # size.w * size.h
                 THEN DivisorIndex(SliceLen(buf.n, offset, size.w * size.h)) ELSE 0)

\* lines 477-482 for the size the first lines settled on
FixedWithSize(r, buf, size) ==
    IF ~(size.has /\ size.w # 0 /\ size.h # 0)
    THEN Raise([r EXCEPT !.geom.path = "fixed"], "Could not determine image dimensions")
    ELSE SliceFixed(r, buf, size, IF r.profile.offsetKey = "height" THEN size.h ELSE size.w)

\* _read_ir_data_from_ir_data; buf.n is the number of uint16 samples of IR.data
ReadIrDataFromIrData(r, buf) == FixedWithSize(r, buf, EmbeddedSize(r, buf))

\* lines 536-554: add(dim) keeps the first occurrence of each candidate
AddDim(seq, dim) == IF \E i \in 1..Len(seq) : seq[i] = dim THEN seq ELSE Append(seq, dim)

AddIf(seq, cond, dim) == IF cond THEN AddDim(seq, dim) ELSE seq

\* the hint of the main image file name as a one-element or empty list
HintList(hint) == IF hint.has THEN <<<<hint.w, hint.h>>>> ELSE <<>>

RECURSIVE AddAll(_, _)
AddAll(seq, dims) ==
    IF dims = <<>> THEN seq ELSE AddAll(AddDim(seq, Head(dims)), Tail(dims))

\* lines 543-554: the candidate (width, height) list, in priority order:
\* ir['size'], (IRWidth, IRHeight), the file name hint, the profile's sizes
PayloadOrder(r, d) ==
    AddAll(AddIf(AddIf(<<>>, r.size.has, <<r.size.w, r.size.h>>),
                 r.IRWidth.has /\ r.IRWidth.v # 0 /\ r.IRHeight.has /\ r.IRHeight.v # 0,
                 <<r.IRWidth.v, r.IRHeight.v>>),
           HintList(BestMainImage(d)) \o r.profile.sizesOrder \o <<r.profile.dims>>)

\* lines 115 and 121-123: the byte length span t must have for candidate c,
\* bare (v = 0) or behind a header of width or height samples (v = 1)
WantedLength(size, v, ir_data_offset) ==
    IF v = 0 THEN size[1] * size[2] * 2
    ELSE ((IF ir_data_offset = "height" THEN size[2] ELSE size[1]) + size[1] * size[2]) * 2

\* lines 113-128: every (span, candidate, variant) the two loops would accept
SpanHits(blob, sizes, ir_data_offset) ==
    {t \in (1..Len(blob.spans)) \X (1..Len(sizes)) \X {0, 1} :
        /\ blob.spans[t[1]].len = WantedLength(sizes[t[2]], t[3], ir_data_offset)
        /\ blob.spans[t[1]].off + blob.spans[t[1]].len <= blob.len}

\* the one the loops reach first: spans outside, candidates inside
FirstHit(hits) ==
    CHOOSE t \in hits : \A u \in hits :
        \/ t[1] < u[1]
        \/ (t[1] = u[1] /\ t[2] < u[2])
        \/ (t[1] = u[1] /\ t[2] = u[2] /\ t[3] <= u[3])

\* lines 129-133: the candidates the tail fallback can serve
TailHits(blob, sizes) ==
    {c \in 1..Len(sizes) : blob.len >= sizes[c][1] * sizes[c][2] * 2}

\* what np.frombuffer returns for raw[first : last] together with the size:
\* span is the index of the span it was cut from (0 for the tail of the
\* buffer), first the byte offset of its first sample, count its samples
Extracted(size, kind, span, first, last) ==
    [err |-> "", ok |-> TRUE, w |-> size[1], h |-> size[2], kind |-> kind,
     span |-> span, first |-> first, count |-> (last - first) \div 2]
NotExtracted(err) ==
    [err |-> err, ok |-> FALSE, w |-> 0, h |-> 0, kind |-> "none",
     span |-> 0, first |-> 0, count |-> 0]

\* the whole span, its header samples kept
SpanSliceNoSkip(blob, t, size, v, ir_data_offset) ==
    Extracted(size, IF v = 0 THEN "span" ELSE "header", t,
              blob.spans[t].off, blob.spans[t].off + blob.spans[t].len)

\* lines 116 and 124-126: the slice of span t for candidate size, bare
\* (v = 0) or behind its header (v = 1)
SpanSlice(blob, t, size, v, ir_data_offset) ==
    Extracted(size, IF v = 0 THEN "span" ELSE "header", t,
              blob.spans[t].off
                + (IF v = 0 THEN 0
                   ELSE 2 * (IF ir_data_offset = "height" THEN size[2] ELSE size[1])),
              blob.spans[t].off + blob.spans[t].len)

\* lines 130-133: raw[-payload_size:] (the whole buffer when payload_size is 0)
TailSlice(blob, size) ==
    Extracted(size, "tail", 0,
              IF size[1] * size[2] = 0 THEN 0 ELSE blob.len - size[1] * size[2] * 2,
              blob.len)

ExtractPick(blob, sizes, hits, tails, ir_data_offset) ==
    IF hits # {}
    THEN SpanSlice(blob, FirstHit(hits)[1], sizes[FirstHit(hits)[2]], FirstHit(hits)[3],
                   ir_data_offset)
    ELSE IF tails = {} THEN NotExtracted("")
    ELSE IF sizes[SetMin(tails)][1] * sizes[SetMin(tails)][2] = 0 /\ blob.len % 2 = 1
    THEN NotExtracted("ValueError: buffer size must be a multiple of element size")
    ELSE TailSlice(blob, sizes[SetMin(tails)])

\* _extract_thermal_from_caltempdatarex; blob.len is the byte length of the
\* buffer and blob.spans the (offset, length) pairs the scanner returns for it
ExtractThermal(blob, sizes, ir_data_offset) ==
    ExtractPick(blob, sizes, SpanHits(blob, sizes, ir_data_offset), TailHits(blob, sizes),
                ir_data_offset)

\* lines 559-584: the outcome of the extraction x for candidate list order
CalTempResult(r, order, x, win) ==
    IF x.err # "" THEN Raise(r, x.err)
    ELSE IF ~x.ok \/ x.w = 0 \/ x.h = 0
    THEN Raise([r EXCEPT !.geom.path = "scanned", !.geom.cands = order],
               "UnsupportedCamera: could not extract thermal payload from CalTempDataRex.gpbenc")
    ELSE [r EXCEPT
            !.geom.path = "scanned",
            !.geom.cands = order,
            !.geom.kind = x.kind,
            !.geom.span = x.span,
            !.geom.first = x.first,
            !.geom.count = x.count,
            !.size = SizeOf(x.w, x.h),
            !.IRWidth = Some(x.w),
            !.IRHeight = Some(x.h),
            !.data = [has |-> TRUE, w |-> x.w, h |-> x.h, n |-> x.w * x.h,
                      mode |-> win.mode, eps |-> 0, tau |-> 0, bg |-> win.bg,
                      lo |-> win.lo, hi |-> win.hi],
            !.thermal_source = "CalTempDataRex.gpbenc"]

CalTempWithOrder(r, blob, order) ==
    CalTempResult(r, order, ExtractThermal(blob, order, r.profile.offsetKey), LinearWindow(r))

\* _read_ir_data_from_caltempdatarex: always the linear fallback
ReadIrDataFromCalTemp(r, d) == CalTempWithOrder(r, d["calTemp"].v, PayloadOrder(r, d))

\* _read_ir_data
ReadIrData(r, d) ==
    IF d["irData"].has THEN ReadIrDataFromIrData(r, d["irData"].v)
    ELSE IF d["calTemp"].has THEN ReadIrDataFromCalTemp(r, d)
    ELSE Raise(r, "UnsupportedCamera: no thermal payload found")

----------------------------------------------------------------------------
(* parsers.py: _read_thumbnail, _read_photo *)

\* _read_thumbnail: the first JPG of Thumbnails/, "" for None
ReadThumbnail(r, d) ==
    [r EXCEPT !.thumbnail_path = IF d["thumb"].has THEN "thumb" ELSE ""]

\* _read_photo: the largest JPG of Images/Main (size > best_size from 0)
ReadPhoto(r, d) ==
    LET ok == {i \in 1..Len(MainImages) :
                  d[MainImages[i]].has /\ IsJpg(MainImages[i]) /\ d[MainImages[i]].v > 0}
        best == {i \in ok : \A k \in ok :
                    \/ d[MainImages[k]].v < d[MainImages[i]].v
                    \/ (d[MainImages[k]].v = d[MainImages[i]].v /\ k >= i)}
    IN [r EXCEPT !.photo_path = IF best = {} THEN "" ELSE MainImages[SetMin(best)]]

----------------------------------------------------------------------------
(* parsers.py: IS2Parser.parse *)

\* the handlers of lines 46-54, in call order
Steps == <<"detect", "profile", "caminfo", "props", "cal", "imginfo", "irdata",
           "thumb", "photo">>

ApplyStep(step, r, d) ==
    CASE step = "detect" -> DetectCameraModel(r, d)
      [] step = "profile" -> ResolveCameraProfile(r, d)
      [] step = "caminfo" -> ReadCameraInfo(r, d)
      [] step = "props" -> ReadImageProperties(r, d)
      [] step = "cal" -> ReadCalibrationData(r, d)
      [] step = "imginfo" -> ReadIrImageInfo(r, d)
      [] step = "irdata" -> ReadIrData(r, d)
      [] step = "thumb" -> ReadThumbnail(r, d)
      [] step = "photo" -> ReadPhoto(r, d)

\* the files a handler looks at (existence test or read)
ReadSet(step) ==
    LET imgs == {MainImages[i] : i \in 1..Len(MainImages)}
    IN CASE step = "detect" -> {"camInfo"}
         [] step = "profile" -> {"irData", "calTemp"}
         [] step = "caminfo" -> {"camInfo"}
         [] step = "props" -> {"props", "meta"} \cup imgs
         [] step = "cal" -> {"cal"}
         [] step = "imginfo" -> {"imgInfo"}
         [] step = "irdata" -> {"irData", "calTemp"} \cup imgs
         [] step = "thumb" -> {"thumb"}
         [] step = "photo" -> imgs

StepIndex(step) == CHOOSE k \in 1..Len(Steps) : Steps[k] = step

\* the try block of lines 44-55 run to its end on a directory nobody else
\* touches: the first handler that raises ends it
RECURSIVE RunFrom(_, _, _)
RunFrom(k, r, d) ==
    IF k > Len(Steps) \/ r.err # "" THEN r
    ELSE RunFrom(k + 1, ApplyStep(Steps[k], r, d), d)

\* what parse returns (err = "") or raises for container c when it is the
\* only call and the scratch directory does not exist beforehand
AloneResult(c) ==
    IF ~c.exists THEN Raise(IrInit, "FileNotFoundError")
    ELSE IF c.corrupt # "" /\ c.files[c.corrupt].has THEN Raise(IrInit, "BadZipFile")
    ELSE RunFrom(1, IrInit, AloneView(c))

\* index in MemberOrder of the next member extractall writes after k, 0 at the end
NextMember(c, k) ==
    LET rest == {i \in (k + 1)..Len(MemberOrder) : c.files[MemberOrder[i]].has}
    IN IF rest = {} THEN 0 ELSE SetMin(rest)

\* lines 39-42: the existence test and the opening of the archive
Start(p) ==
    /\ pc[p] = "start"
    /\ IF ~zip[p].exists
       THEN /\ ir' = [ir EXCEPT ![p] = Raise(IrInit, "FileNotFoundError")]
            /\ pc' = [pc EXCEPT ![p] = "done"]
       ELSE /\ ir' = [ir EXCEPT ![p] = IrInit]
            /\ pc' = [pc EXCEPT ![p] = IF NextMember(zip[p], 0) = 0 THEN "detect" ELSE "extract"]
    /\ UNCHANGED <<zip, fs, xi, foreign, fin, fout>>

\* line 43: extractall writes one member into the scratch directory; a member
\* that fails its check raises BadZipFile out of parse, before the try block
Extract(p) ==
    /\ pc[p] = "extract"
    /\ LET i == NextMember(zip[p], xi[p])
           m == MemberOrder[i]
       IN /\ fs' = [dir |-> TRUE, own |-> [fs.own EXCEPT ![m] = p]]
          /\ xi' = [xi EXCEPT ![p] = i]
          /\ IF zip[p].corrupt = m
             THEN /\ ir' = [ir EXCEPT ![p] = Raise(@, "BadZipFile")]
                  /\ pc' = [pc EXCEPT ![p] = "done"]
             ELSE /\ ir' = ir
                  /\ pc' = [pc EXCEPT ![p] =
                              IF NextMember(zip[p], i) = 0 THEN "detect" ELSE "extract"]
    /\ UNCHANGED <<zip, foreign, fin, fout>>

\* one handler of the try block has run on what the scratch directory holds
\* now and left r (its exception in r.err)
Handler(p, step, r) ==
    /\ pc[p] = step
    /\ ir' = [ir EXCEPT ![p] = r]
    /\ pc' = [pc EXCEPT ![p] = IF r.err # "" \/ StepIndex(step) = Len(Steps) THEN "cleanup"
                              ELSE Steps[StepIndex(step) + 1]]
    /\ foreign' = [foreign EXCEPT ![p] = @ \/ \E m \in ReadSet(step) : fs.own[m] \notin {0, p}]
    /\ UNCHANGED <<zip, fs, xi, fin, fout>>

DetectStep(p) == Handler(p, "detect", DetectCameraModel(ir[p], View(fs, zip)))
ProfileStep(p) == Handler(p, "profile", ResolveCameraProfile(ir[p], View(fs, zip)))
CamInfoStep(p) == Handler(p, "caminfo", ReadCameraInfo(ir[p], View(fs, zip)))
PropsStep(p) == Handler(p, "props", ReadImageProperties(ir[p], View(fs, zip)))
CalStep(p) == Handler(p, "cal", ReadCalibrationData(ir[p], View(fs, zip)))
ImgInfoStep(p) == Handler(p, "imginfo", ReadIrImageInfo(ir[p], View(fs, zip)))
IrDataStep(p) == Handler(p, "irdata", ReadIrData(ir[p], View(fs, zip)))
ThumbStep(p) == Handler(p, "thumb", ReadThumbnail(ir[p], View(fs, zip)))
PhotoStep(p) == Handler(p, "photo", ReadPhoto(ir[p], View(fs, zip)))

\* lines 56-58: finally: remove the scratch directory if it exists
Cleanup(p) ==
    /\ pc[p] = "cleanup"
    /\ fs' = IF fs.dir THEN FsInit ELSE fs
    /\ pc' = [pc EXCEPT ![p] = "done"]
    /\ UNCHANGED <<zip, ir, xi, foreign, fin, fout>>

ParseStep(p) ==
    \/ Start(p)
    \/ Extract(p)
    \/ DetectStep(p)
    \/ ProfileStep(p)
    \/ CamInfoStep(p)
    \/ PropsStep(p)
    \/ CalStep(p)
    \/ ImgInfoStep(p)
    \/ IrDataStep(p)
    \/ ThumbStep(p)
    \/ PhotoStep(p)
    \/ Cleanup(p)

----------------------------------------------------------------------------
(* Containers the calls are run on *)

File(v) == [has |-> TRUE, v |-> v]
Fill(n, c) == [i \in 1..n |-> c]

\* a 124-byte CameraInfo.gpbenc of the classic layout: manufacturer at 76..94,
\* the six model bytes at 97..103, engine serial at 104..112, serial at 115..124
ClassicCamInfo(model6) ==
    Fill(76, 0) \o Fill(18, 70) \o Fill(3, 0) \o model6 \o Fill(1, 0)
    \o Fill(8, 49) \o Fill(3, 0) \o Fill(9, 50)

\* a short variant-encoded CameraInfo.gpbenc with the name embedded
BinaryCamInfo(name) == Fill(10, 8) \o name \o Fill(4, 0)

Ti300Dash == Ti300 \o <<45>>                  \* "Ti300-"
TiX400 == <<84, 105, 88, 52, 48, 48>>         \* "TiX400", not in the registry

Props(w, h) ==
    [decodable |-> TRUE, vlBad |-> FALSE, w |-> w, h |-> h,
     emis |-> Num(950), bg |-> Num(22000), trans |-> Missing,
     tmin |-> Num(18000), tmax |-> Num(40000), tavg |-> Num(25000), tctr |-> Missing]

\* one curve part: counts 4..15 from t in [2, 4), t = sqrt(j)
GoodSeg == [lo |-> 2, hiA |-> 4, hiB |-> 4, a |-> 1, b |-> 0, c |-> 0]
\* the reserved placeholder curve part
PlaceholderSeg == [lo |-> -1, hiA |-> -1, hiB |-> -1, a |-> -1, b |-> -1, c |-> -1]

Cal(segs) == [segs |-> segs, tailMagic |-> FALSE]

\* Ti300 container: fixed-array payload of 320 header samples and 320 x 240 pixels
ClassicFiles ==
    [EmptyFiles EXCEPT
        !["camInfo"] = File(ClassicCamInfo(Ti300Dash)),
        !["props"] = File(Props(Num(320), Num(240))),
        !["cal"] = File(Cal(<<GoodSeg>>)),
        !["imgInfo"] = File([len |-> 47, f33 |-> 900, f38 |-> 25000, f43 |-> 800]),
        !["irData"] = File([n |-> 320 + 320 * 240, ew |-> 0, eh |-> 0])]

\* TiS75+ container: scanned-blob payload in one span of 384 x 288 samples
BlobFiles ==
    [EmptyFiles EXCEPT
        !["camInfo"] = File(BinaryCamInfo(TiS75Plus)),
        !["meta"] = File(Props(Num(384), Num(288))),
        !["cal"] = File(Cal(<<PlaceholderSeg>>)),
        !["imgInfo"] = File([len |-> 60, f33 |-> 120000, f38 |-> -20000, f43 |-> 950]),
        !["calTemp"] = File([len |-> 300 + 384 * 288 * 2,
                             spans |-> <<[off |-> 20, len |-> 64],
                                         [off |-> 200, len |-> 384 * 288 * 2]>>]),
        !["jpg2"] = File(5000),
        !["thumb"] = File(700)]

Zip(files) == [exists |-> TRUE, corrupt |-> "", files |-> files]

\* a call that is not made
IdleZip == [exists |-> FALSE, corrupt |-> "", files |-> EmptyFiles]

----------------------------------------------------------------------------
(* Specifications *)

\* the containers of the concurrent and the back-to-back decodes: the two
\* above, and each with one member that fails its check during extraction
SharedZips ==
    {Zip(ClassicFiles), Zip(BlobFiles),
     [Zip(ClassicFiles) EXCEPT !.corrupt = "irData"],
     [Zip(BlobFiles) EXCEPT !.corrupt = "cal"]}

InitShared ==
    /\ zip \in [Procs -> SharedZips]
    /\ pc = [p \in Procs |-> "start"]
    /\ ir = [p \in Procs |-> IrInit]
    /\ fs = FsInit
    /\ xi = [p \in Procs |-> 0]
    /\ foreign = [p \in Procs |-> FALSE]
    /\ fin = 0
    /\ fout = 0

\* one call on one container of the set Z, nothing else running
InitOne(Z) ==
    /\ zip \in {[p \in Procs |-> IF p = 1 THEN c ELSE IdleZip] : c \in Z}
    /\ pc = [p \in Procs |-> IF p = 1 THEN "start" ELSE "done"]
    /\ ir = [p \in Procs |-> IrInit]
    /\ fs = FsInit
    /\ xi = [p \in Procs |-> 0]
    /\ foreign = [p \in Procs |-> FALSE]
    /\ fin = 0
    /\ fout = 0

\* the caller decodes files in parallel, one call per file
Next == \E p \in Procs : ParseStep(p)

Spec == InitShared /\ [][Next]_vars

\* the caller decodes one file after the other
NextSerial ==
    \/ ParseStep(1)
    \/ (pc[1] = "done" /\ ParseStep(2))

SpecSerial == InitShared /\ [][NextSerial]_vars

----------------------------------------------------------------------------
(* Stand-alone calls of get_camera_profile and detect_model_from_camera_info *)

\* longest run of padding put before and after a model name
MaxPad == 1

\* all sequences over chars of length at most n
RECURSIVE SeqsUpTo(_, _)
SeqsUpTo(chars, n) ==
    IF n = 0 THEN {<<>>}
    ELSE SeqsUpTo(chars, n - 1)
         \cup {Append(q, c) : q \in {x \in SeqsUpTo(chars, n - 1) : Len(x) = n - 1}, c \in chars}

\* padding: space, "-", tab, "X"
PadChars == {32, 45, 9, 88}

\* model names: nothing, "?", "Unknown", the registry names, a truncated and an
\* unregistered name, and names that hold two registry names
ModelCores ==
    {<<>>, QuestionMark, UnknownName, TiS75Plus, Ti480P, Ti300,
     <<84, 105, 51, 48>>, TiX400,
     Ti300 \o <<32>> \o TiS75Plus, Ti300 \o Ti480P, Ti480P \o <<45>> \o Ti300}

ModelNames ==
    {a \o core \o b : a \in SeqsUpTo(PadChars, MaxPad), core \in ModelCores,
                      b \in SeqsUpTo(PadChars, MaxPad)}

IdlePipeline ==
    /\ zip = [p \in Procs |-> IdleZip]
    /\ pc = [p \in Procs |-> "done"]
    /\ ir = [p \in Procs |-> IrInit]
    /\ fs = FsInit
    /\ xi = [p \in Procs |-> 0]
    /\ foreign = [p \in Procs |-> FALSE]

InitProfile ==
    /\ IdlePipeline
    /\ fin \in [model : ModelNames, has_ir_data : BOOLEAN, has_caltempdatarex : BOOLEAN]
    /\ fout = [done |-> FALSE, out |-> [err |-> "", errModel |-> <<>>, prof |-> NoProfile]]

\* the call get_camera_profile(model, has_ir_data=..., has_caltempdatarex=...)
CallGetCameraProfile ==
    /\ ~fout.done
    /\ fout' = [done |-> TRUE,
                out |-> GetCameraProfile(fin.model, fin.has_ir_data, fin.has_caltempdatarex)]
    /\ UNCHANGED <<zip, pc, ir, fs, xi, foreign, fin>>

SpecProfile == InitProfile /\ [][CallGetCameraProfile]_vars

\* registry names that equal, start or occur in the model name as given
NamedIn(model) ==
    {k \in 1..Len(CameraProfiles) :
        \/ CameraProfiles[k].name = model
        \/ StartsWith(model, CameraProfiles[k].name)
        \/ IsSubstr(CameraProfiles[k].name, model)}

IsDefaultClassic(out) == out.err = "" /\ out.prof = ProfileIrData(out.prof.name, 320, 240)

\* C4: get_camera_profile returns the profile of the first registry name (in
\* registry order) that equals, starts or occurs in the model name; with no
\* such name it returns the default classic profile when IR.data exists, fails
\* with UnsupportedCameraError when only CalTempDataRex exists, and returns
\* the default classic profile when neither exists.
C4_ProfileResolution ==
    fout.done =>
        IF NamedIn(fin.model) # {}
        THEN fout.out.err = "" /\ fout.out.prof = CameraProfiles[SetMin(NamedIn(fin.model))]
        ELSE IF fin.has_ir_data THEN IsDefaultClassic(fout.out)
        ELSE IF fin.has_caltempdatarex
             THEN fout.out.err = "UnsupportedCamera: unknown model, CalTempDataRex only"
        ELSE IsDefaultClassic(fout.out)

\* a padded name that holds two registry names has been resolved
C4_Witness ==
    /\ fout.done
    /\ Cardinality(NamedIn(fin.model)) >= 2
    /\ fin.model # CleanModel(fin.model)

----------------------------------------------------------------------------
(* detect_model_from_camera_info on its own *)

\* most spaces put in front of the text of the six model bytes
MaxLead == 2

\* texts a classic-layout record may carry in its model bytes: nothing, parts
\* of registry names, unregistered names, and bytes that are not printable
SliceCores ==
    {<<>>, <<84, 105>>, <<84, 105, 51>>, <<105, 52, 56>>, <<65, 66>>, <<84, 105, 88, 52>>,
     <<1, 2>>, <<65, 0, 66>>, <<84, 105, 127>>, <<65, 32, 66>>}

\* the six model bytes: leading spaces, the text, then one filler byte repeated
ModelSlices ==
    {Fill(a, 32) \o core \o Fill(6 - a - Len(core), f) :
        a \in 0..MaxLead, core \in SliceCores, f \in {32, 45, 9, 0, 31}}

\* CameraInfo.gpbenc buffers: empty, shorter than the classic layout (with and
\* without an embedded registry name), and classic-layout records of 103 and
\* 124 bytes, some with a registry name elsewhere in the record
CameraInfoBuffers ==
    {<<>>, Fill(50, 0), Fill(102, 32), BinaryCamInfo(TiS75Plus), BinaryCamInfo(Ti300)}
    \cup {Fill(97, h) \o s \o t : h \in {0, 32}, s \in ModelSlices, t \in {<<>>, Fill(21, 0)}}
    \cup {Fill(20, 0) \o Ti480P \o Fill(71, 0) \o s : s \in ModelSlices}

InitDetect ==
    /\ IdlePipeline
    /\ fin \in CameraInfoBuffers
    /\ fout = [done |-> FALSE, out |-> <<>>]

\* the call detect_model_from_camera_info(raw)
CallDetectModel ==
    /\ ~fout.done
    /\ fout' = [done |-> TRUE, out |-> DetectModelFromCameraInfo(fin)]
    /\ UNCHANGED <<zip, pc, ir, fs, xi, foreign, fin>>

SpecDetect == InitDetect /\ [][CallDetectModel]_vars

\* no registry name occurs in the buffer as a byte substring
NoNameInBuffer(raw) == \A k \in 1..Len(CameraProfiles) : ~IsSubstr(CameraProfiles[k].name, raw)

\* the model bytes 97..103 after trimming
TrimmedModelBytes(raw) == RStrip(Strip(Slice(raw, 97, 103)), DashSpaceTab)

\* C5: detect_model_from_camera_info returns None whenever no registry name
\* occurs in the buffer and the model bytes 97..103 are missing (buffer shorter
\* than 103 bytes), trim to the empty string, or hold a non-printable character.
C5_NoMatchGivesNone ==
    (/\ fout.done
     /\ NoNameInBuffer(fin)
     /\ \/ Len(fin) < 103
        \/ TrimmedModelBytes(fin) = <<>>
        \/ ~IsPrintable(TrimmedModelBytes(fin)))
    => fout.out = <<>>

----------------------------------------------------------------------------
(* Shared scratch directory: concurrent and back-to-back calls *)

\* C1: two calls of parse that run concurrently on two containers do not
\* interfere: under every interleaving each call ends with the result (record
\* or error) it has when run alone, and has read no file that was extracted
\* from the other call's container.
C1_NoInterference ==
    \A p \in Procs :
        pc[p] = "done" => (ir[p] = AloneResult(zip[p]) /\ ~foreign[p])

\* C2: once a call of parse has created or written the scratch directory, the
\* directory no longer exists when that call returns or raises (here: the
\* first of two back-to-back calls has ended and the second has not begun).
C2_ScratchRemovedOnExit ==
    (pc[1] = "done" /\ pc[2] = "start" /\ xi[1] > 0) => ~fs.dir

\* C3: the result of a call depends on its container only: the second of two
\* back-to-back calls ends with the result it has on a scratch directory that
\* does not exist beforehand, whatever the first call left behind.
C3_ResultFromContainerOnly ==
    pc[2] = "done" => ir[2] = AloneResult(zip[2])

----------------------------------------------------------------------------
(* One call on one container: the containers *)

\* curve parts a CalibrationData.gpbenc may hold besides GoodSeg and
\* PlaceholderSeg
UnorderedSeg == [lo |-> 4, hiA |-> 2, hiB |-> 2, a |-> 1, b |-> 0, c |-> 0]
FlatSeg == [lo |-> 2, hiA |-> 4, hiB |-> 4, a |-> 0, b |-> 1, c |-> 0]
\* counts 10000..10398 from t in [-200, -199), t = -sqrt(50000 - j)
ColdSeg == [lo |-> -200, hiA |-> -199, hiB |-> -199, a |-> -1, b |-> 0, c |-> 50000]
\* ordered only when its bytes are read in the second layout
LayoutBSeg == [lo |-> 2, hiA |-> 0, hiB |-> 4, a |-> 1, b |-> 0, c |-> 0]
\* ordered endpoints whose counts run backwards: it stores nothing
BarrenSeg == [lo |-> -4, hiA |-> -2, hiB |-> -2, a |-> 1, b |-> 0, c |-> 0]
\* counts 2..17 from t in [1, 3), t = sqrt(j / 2): it shares 4..15 with GoodSeg
OverlapSeg == [lo |-> 1, hiA |-> 3, hiB |-> 3, a |-> 2, b |-> 0, c |-> 0]
\* counts -6..5 from t in [2, 4), t = sqrt(j + 10)
BelowZeroSeg == [lo |-> 2, hiA |-> 4, hiB |-> 4, a |-> 1, b |-> 0, c |-> -10]
\* counts 65534..65545 from t in [2, 4), t = sqrt(j - 65530)
AboveTopSeg == [lo |-> 2, hiA |-> 4, hiB |-> 4, a |-> 1, b |-> 0, c |-> 65530]

CalVariants ==
    {Absent("cal"), File(Cal(<<>>)), File([segs |-> <<>>, tailMagic |-> TRUE])}
    \cup {File(Cal(segs)) : segs \in
            {<<PlaceholderSeg>>, <<GoodSeg>>, <<UnorderedSeg>>, <<FlatSeg>>, <<ColdSeg>>,
             <<LayoutBSeg>>, <<BarrenSeg>>, <<PlaceholderSeg, GoodSeg>>,
             <<UnorderedSeg, PlaceholderSeg>>, <<GoodSeg, ColdSeg>>,
             <<GoodSeg, OverlapSeg>>, <<OverlapSeg, GoodSeg>>, <<BelowZeroSeg>>,
             <<AboveTopSeg>>}}

\* the two containers above with every calibration record
CalZips ==
    {Zip([base EXCEPT !["cal"] = cal]) : base \in {ClassicFiles, BlobFiles}, cal \in CalVariants}

CamInfoVariants ==
    {File(ClassicCamInfo(Ti300Dash)), File(BinaryCamInfo(TiS75Plus)), File(ClassicCamInfo(TiX400))}

\* ImageProperties.json: absent, or with the dimensions it declares
DimsVariants ==
    {Absent("props")}
    \cup {File(Props(w, h)) : w \in {Num(320), Num(0), Missing}, h \in {Num(240), Num(0)}}
    \cup {File(Props(Num(640), Num(480))), File(Props(Missing, Missing)),
          File(Props(Num(384), Num(288))), File(Props(Bad, Num(240)))}

\* the files of Images/Main, each with its size in bytes
JpgVariants ==
    { EmptyFiles,
      [EmptyFiles EXCEPT !["jpg3"] = File(4000)],
      [EmptyFiles EXCEPT !["jpg3"] = File(0)],
      [EmptyFiles EXCEPT !["jpg1"] = File(4000), !["jpg5"] = File(9000)],
      [EmptyFiles EXCEPT !["jpg4"] = File(4000), !["jpg6"] = File(100), !["jpg7"] = File(100)],
      [EmptyFiles EXCEPT !["jpg2"] = File(4000), !["jpg3"] = File(5000)],
      [EmptyFiles EXCEPT !["jpg1"] = File(9000), !["jpg2"] = File(5000), !["jpg3"] = File(5000)],
      [EmptyFiles EXCEPT !["jpg2"] = File(0), !["jpg3"] = File(300)] }

\* IR.data: its number of 16-bit samples and the two header fields d[192], d[193]
IrDataVariants ==
    {File([n |-> n, ew |-> 0, eh |-> 0]) :
        n \in {320 + 320 * 240, 320 + 320 * 240 + 320, 320 + 320 * 120, 320 + 38401,
               160 + 160 * 120, 640 + 640 * 480, 100, 320 + 384 * 101}}
    \cup {File([n |-> 320 + 320 * 240, ew |-> 320, eh |-> 240]),
          File([n |-> 256 + 256 * 192, ew |-> 256, eh |-> 192]),
          File([n |-> 150, ew |-> 160, eh |-> 120])}

\* CalTempDataRex.gpbenc: its length in bytes and the spans the scanner finds
CalTempVariants ==
    {File([len |-> 300 + 384 * 288 * 2, spans |-> <<[off |-> 200, len |-> 384 * 288 * 2]>>]),
     File([len |-> 100 + (320 + 320 * 240) * 2,
           spans |-> <<[off |-> 50, len |-> (320 + 320 * 240) * 2]>>]),
     File([len |-> 40 + 160 * 120 * 2 + 384 * 288 * 2,
           spans |-> <<[off |-> 10, len |-> 160 * 120 * 2],
                       [off |-> 30 + 160 * 120 * 2, len |-> 384 * 288 * 2]>>]),
     File([len |-> 384 * 288 * 2 + 10, spans |-> <<>>]),
     File([len |-> 77, spans |-> <<[off |-> 5, len |-> 0]>>])}

\* the payload members: IR.data, CalTempDataRex.gpbenc, or neither
PayloadVariants ==
    {[irData |-> x, calTemp |-> Absent("calTemp")] : x \in IrDataVariants}
    \cup {[irData |-> Absent("irData"), calTemp |-> x] : x \in CalTempVariants}
    \cup {[irData |-> Absent("irData"), calTemp |-> Absent("calTemp")]}

\* containers that differ in where the frame dimensions can come from
GeomFiles(ci, props, jpgs, pay) ==
    [m \in Members |->
        CASE m = "camInfo" -> ci
          [] m = "props" -> props
          [] m = "cal" -> IF ci = File(BinaryCamInfo(TiS75Plus))
                          THEN File(Cal(<<PlaceholderSeg>>)) ELSE File(Cal(<<GoodSeg>>))
          [] m = "irData" -> pay.irData
          [] m = "calTemp" -> pay.calTemp
          [] OTHER -> jpgs[m]]

GeomZips ==
    {Zip(GeomFiles(ci, props, jpgs, pay)) :
        ci \in CamInfoVariants, props \in DimsVariants, jpgs \in JpgVariants,
        pay \in PayloadVariants}

\* metadata scalars of ImageProperties.json for a 320 x 240 frame
ScalarVariants ==
    {File([Props(Num(320), Num(240)) EXCEPT !.emis = e, !.bg = b, !.trans = t]) :
        e \in {Num(950), Num(1200), Missing, Bad},
        b \in {Num(22000), Missing},
        t \in {Missing, Num(800), Bad}}

\* other states of ImageProperties.json: absent, not JSON in any of the four
\* encodings, a visible-light width that int() refuses, temperatures that are
\* missing or not numbers
MetadataStates ==
    {Absent("props"),
     File([Props(Num(320), Num(240)) EXCEPT !.decodable = FALSE]),
     File([Props(Num(320), Num(240)) EXCEPT !.vlBad = TRUE]),
     File([Props(Num(320), Num(240)) EXCEPT !.tmin = Missing, !.tmax = Bad, !.tavg = Bad])}

\* Images/Main/IRImageInfo.gpbenc: absent, too short, or with its three floats
ImgInfoVariants ==
    {Absent("imgInfo"), File([len |-> 40, f33 |-> 900, f38 |-> 25000, f43 |-> 500])}
    \cup {File([len |-> 47, f33 |-> 900, f38 |-> 25000, f43 |-> t]) : t \in {500, 1500, 0}}

\* fixed-array containers that differ in the scalars of the two sources
ScalarZips ==
    {Zip([ClassicFiles EXCEPT !["camInfo"] = ci, !["props"] = m, !["imgInfo"] = ii,
                              !["cal"] = cal]) :
        ci \in {File(ClassicCamInfo(Ti300Dash)), File(BinaryCamInfo(TiS75Plus))},
        m \in ScalarVariants \cup MetadataStates, ii \in ImgInfoVariants,
        cal \in {File(Cal(<<GoodSeg>>)), File(Cal(<<PlaceholderSeg>>))}}

\* CameraInfo.gpbenc cut short: the classic record without its last byte, cut
\* inside the engine serial, cut before the model bytes, and the bare name
ShortCamInfos ==
    {File(SubSeq(ClassicCamInfo(Ti300Dash), 1, n)) : n \in {123, 110, 96}}
    \cup {File(BinaryCamInfo(Ti300))}

\* Images/Main/IRImageInfo.gpbenc cut short, and of full length
ShortImgInfos ==
    {File([len |-> n, f33 |-> 900, f38 |-> 25000, f43 |-> 500]) : n \in {0, 46, 47}}

\* containers whose side records are shorter than the profile asks for
RecordZips ==
    {Zip([base EXCEPT !["camInfo"] = ci, !["imgInfo"] = ii]) :
        base \in {ClassicFiles, [ClassicFiles EXCEPT !["props"] = Absent("props")]},
        ci \in ShortCamInfos, ii \in ShortImgInfos}

DecodeZips == CalZips \cup GeomZips \cup ScalarZips \cup RecordZips

InitDecode == InitOne(DecodeZips)

\* one call of parse, on any of the containers above
SpecDecode == InitDecode /\ [][Next]_vars

----------------------------------------------------------------------------
(* One call on one container: calibration, geometry, scalars *)

\* the call has ended and its container is c
Ended == pc[1] = "done" /\ zip[1].exists

\* a curve part is usable as the builder's contract words it: low endpoint at
\* or above -180, endpoints ordered in one of the two layouts, a not zero,
\* coefficients not the reserved triple
StatedUsable(seg) ==
    /\ seg.lo >= -180
    /\ (seg.lo < seg.hiA \/ seg.lo < seg.hiB)
    /\ seg.a # 0
    /\ ~IsPlaceholderCoeffs(seg)

NoStatedUsable(cal) == \A i \in 1..Len(cal.segs) : ~StatedUsable(cal.segs[i])

\* C6: decode fails and returns no record whenever CalibrationData.gpbenc is
\* absent, or holds no usable curve segment while the resolved profile does not
\* accept a placeholder; and a frame is never converted with an empty table
\* unless the calibration is an accepted placeholder.
C6_FailsWithoutCalibration ==
    Ended =>
        /\ ~zip[1].files["cal"].has => ir[1].err # ""
        /\ (/\ zip[1].files["cal"].has
            /\ NoStatedUsable(zip[1].files["cal"].v)
            /\ ~ir[1].profile.accept) => ir[1].err # ""
        /\ (ir[1].data.has /\ DOMAIN ir[1].conversion = {})
              => (ir[1].calibration_placeholder /\ ir[1].profile.accept)

\* some plausible width divides n with a height in [1, 10000]
HasDivisor(n) ==
    \E w \in {320, 384, 640, 256, 160} : n % w = 0 /\ n \div w >= 1 /\ n \div w <= 10000

\* the fixed-array reader ran with non-zero declared dimensions
FixedRan == Ended /\ ir[1].geom.path = "fixed" /\ ir[1].geom.declW # 0 /\ ir[1].geom.declH # 0

\* C7 (as stated): in the IR.data path, whenever the number of samples after
\* the header differs from width*height and a plausible width divides that
\* number with a height in [1, 10000], decode succeeds with a frame of
\* width*height equal to the number of samples.
C7_AnyMismatchRecovered ==
    (/\ FixedRan
     /\ ir[1].geom.avail # ir[1].geom.declW * ir[1].geom.declH
     /\ HasDivisor(ir[1].geom.avail))
    => (ir[1].err = "" /\ ir[1].size.w * ir[1].size.h = ir[1].geom.avail)

\* C7 (amended): in the IR.data path, whenever fewer samples than width*height
\* follow the header and a plausible width divides their number with a height
\* in [1, 10000], decode succeeds with a frame of a plausible width whose
\* width*height equals the number of samples and whose array has that shape;
\* whenever more samples than width*height follow the header, decode succeeds
\* with the declared width and height.
C7_ShortfallRecovered ==
    /\ (/\ FixedRan
        /\ ir[1].geom.avail < ir[1].geom.declW * ir[1].geom.declH
        /\ HasDivisor(ir[1].geom.avail))
       => /\ ir[1].err = ""
          /\ ir[1].size.w * ir[1].size.h = ir[1].geom.avail
          /\ ir[1].size.w \in {320, 384, 640, 256, 160}
          /\ ir[1].data.has /\ ir[1].data.w = ir[1].size.w /\ ir[1].data.h = ir[1].size.h
          /\ ir[1].IRWidth = Some(ir[1].size.w) /\ ir[1].IRHeight = Some(ir[1].size.h)
    /\ (FixedRan /\ ir[1].geom.avail > ir[1].geom.declW * ir[1].geom.declH)
       => /\ ir[1].err = ""
          /\ ir[1].size = SizeOf(ir[1].geom.declW, ir[1].geom.declH)
          /\ ir[1].data.n = ir[1].geom.declW * ir[1].geom.declH

C7_Witness ==
    /\ FixedRan
    /\ ir[1].geom.avail < ir[1].geom.declW * ir[1].geom.declH
    /\ HasDivisor(ir[1].geom.avail)
    /\ ir[1].size.w = 384 /\ ir[1].geom.declW = 320


\* what the metadata files of the container declare, before any hint
Declared == ReadPropsFiles(IrInit, AloneView(zip[1]))

\* the metadata gives no non-zero dimensions: no file was read, or one of the
\* two values it declares is zero
NoMetadataDims ==
    \/ ~Declared.IRWidth.has
    \/ Declared.IRWidth.v = 0
    \/ Declared.IRHeight.v = 0

\* no file of Images/Main gives a filename hint
NoFilenameHint == ~BestMainImage(AloneView(zip[1])).has

\* IR.data, if there is one, has no non-zero embedded dimensions
NoEmbeddedDims ==
    zip[1].files["irData"].has =>
        (zip[1].files["irData"].v.ew = 0 \/ zip[1].files["irData"].v.eh = 0)

\* C8: for either payload kind, when the metadata gives no non-zero
\* dimensions, there is no valid filename hint and IR.data carries no non-zero
\* embedded dimensions, decode does not fail for lack of dimensions: a frame
\* that is decoded has the profile's default (width, height).
C8_ProfileDefaultLastResort ==
    (/\ Ended
     /\ zip[1].files["irData"].has \/ zip[1].files["calTemp"].has
     /\ NoMetadataDims /\ NoFilenameHint /\ NoEmbeddedDims)
    => /\ ir[1].err # "Could not determine image dimensions"
       /\ ir[1].err = "" =>
            ir[1].size = SizeOf(ir[1].profile.dims[1], ir[1].profile.dims[2])

\* the main images whose name is an accepted hint, and those that also hold
\* at least one byte
HintNames == {i \in 1..Len(MainImages) :
                 zip[1].files[MainImages[i]].has /\ StemDims(MainImages[i]).has}
HintFiles == {i \in HintNames : zip[1].files[MainImages[i]].v > 0}

\* the metadata dimensions are zero, absent or the generic 640 x 480
Overridable ==
    \/ NoMetadataDims
    \/ ~Declared.IRHeight.has
    \/ <<Declared.IRWidth.v, Declared.IRHeight.v>> = <<640, 480>>

\* the dimensions the call holds are those of the file names in S that no
\* other file of S exceeds in size
HoldsHintOf(S) ==
    \E i \in S :
        /\ \A k \in S : zip[1].files[MainImages[k]].v <= zip[1].files[MainImages[i]].v
        /\ ir[1].size = StemDims(MainImages[i])
        /\ ir[1].IRWidth = Some(StemDims(MainImages[i]).w)
        /\ ir[1].IRHeight = Some(StemDims(MainImages[i]).h)

HoldsDeclared ==
    /\ ir[1].IRWidth = Declared.IRWidth
    /\ ir[1].IRHeight = Declared.IRHeight
    /\ ir[1].size = Declared.size

\* _read_image_properties has just returned
Resolved == pc[1] = "cal"

MetaFile == zip[1].files["props"].v

\* a frame was converted through the calibration table after metadata was
\* read from ImageProperties.json
ConvertedByTable ==
    /\ Ended /\ ir[1].err = "" /\ ir[1].data.mode = "lut"
    /\ zip[1].files["props"].has /\ MetaFile.decodable /\ ~MetaFile.vlBad

\* C10: for each of emissivity, transmission and background temperature, a
\* value that the JSON metadata supplied is not replaced by the image-info
\* record and is the value the radiometric conversion uses, whatever
\* IRImageInfo.gpbenc holds.
C10_MetadataScalarsKept ==
    ConvertedByTable =>
        /\ MetaFile.emis.kind = "num" =>
              (ir[1].Emissivity = Some(MetaFile.emis.v)
               /\ ir[1].data.eps = ClampUnit(MetaFile.emis.v))
        /\ MetaFile.bg.kind = "num" =>
              (ir[1].BackgroundTemp = Some(MetaFile.bg.v) /\ ir[1].data.bg = MetaFile.bg.v)
        /\ MetaFile.trans.kind = "num" =>
              (ir[1].transmission = Some(MetaFile.trans.v)
               /\ ir[1].data.tau = ClampUnit(MetaFile.trans.v))

----------------------------------------------------------------------------
(* One call on one container: the converter, the side records, the errors *)

\* the call returned a record with a temperature array
Decoded == Ended /\ ir[1].err = "" /\ ir[1].data.has

\* C11: for both payload kinds the converter is selected by the calibration
\* table alone: the array is made by table lookup with the radiometric
\* correction when the table is not empty, and by the linear fallback if and
\* only if the table is empty.
C11_ConverterByTable ==
    Decoded => (ir[1].data.mode = "lut" <=> DOMAIN ir[1].conversion # {})

\* the numeric values that the metadata files of the container hold for a key
FileValues(key) ==
    {zip[1].files[f].v[key].v :
        f \in {g \in {"props", "meta"} :
                  /\ zip[1].files[g].has /\ zip[1].files[g].v.decodable
                  /\ zip[1].files[g].v[key].kind = "num"}}

\* a scalar of the record holds a value of the file or the default
SetFrom(field, key, def_val) == field.has /\ field.v \in FileValues(key) \cup {def_val}

\* C12: whatever the state of the metadata side-file (absent, not decodable,
\* keys missing, values that are not numbers), _read_image_properties raises
\* nothing and afterwards the thermal width and height are set and each of
\* emissivity, background temperature and minimum, maximum, average and
\* center temperature holds the file's value or its default.
C12_MetadataNeverUnset ==
    Resolved =>
        /\ ir[1].err = ""
        /\ ir[1].IRWidth.has /\ ir[1].IRHeight.has
        /\ SetFrom(ir[1].Emissivity, "emis", 950)
        /\ SetFrom(ir[1].BackgroundTemp, "bg", 20000)
        /\ SetFrom(ir[1].MinTemp, "tmin", 0)
        /\ SetFrom(ir[1].MaxTemp, "tmax", 0)
        /\ SetFrom(ir[1].AvgTemp, "tavg", 0)
        /\ SetFrom(ir[1].CenterTemp, "tctr", 0)

\* the fields the two side records supply
CameraInfoFields(r) ==
    <<r.CameraManufacturer, r.CameraModel, r.EngineSerial, r.CameraSerial>>

ImageInfoFields(r) ==
    <<r.Emissivity, r.Transmission, r.transmission, r.BackgroundTemp,
      r.TempRangeMin, r.TempRangeMax>>

\* the record in the scratch directory is shorter than the profile's minimum
ShortCameraInfo ==
    /\ View(fs, zip)["camInfo"].has
    /\ Len(View(fs, zip)["camInfo"].v) < ir[1].profile.ciMinBytes

ShortImageInfo ==
    /\ View(fs, zip)["imgInfo"].has
    /\ View(fs, zip)["imgInfo"].v.len < ir[1].profile.iiMinBytes

\* C13: a camera-info or image-info record shorter than the minimum length of
\* its profile is skipped silently: the handler that reads it raises nothing
\* and leaves every field that the record would supply as it was.
C13_ShortRecordSkipped ==
    [][/\ (pc[1] = "caminfo" /\ ShortCameraInfo) =>
            (ir'[1].err = "" /\ CameraInfoFields(ir'[1]) = CameraInfoFields(ir[1]))
       /\ (pc[1] = "imginfo" /\ ShortImageInfo) =>
            (ir'[1].err = "" /\ ImageInfoFields(ir'[1]) = ImageInfoFields(ir[1]))]_vars

\* both records were short, the camera-info one long enough to hold a maker
\* and a model, and both handlers have returned
C13_Witness ==
    /\ pc[1] = "irdata" /\ ir[1].err = ""
    /\ zip[1].files["camInfo"].has /\ zip[1].files["imgInfo"].has
    /\ Len(zip[1].files["camInfo"].v) \in 103..(ir[1].profile.ciMinBytes - 1)
    /\ zip[1].files["imgInfo"].v.len < ir[1].profile.iiMinBytes
    /\ Strip(Slice(zip[1].files["camInfo"].v, 76, 94)) # <<>>
    /\ ir[1].CameraManufacturer = <<>>
    /\ ~ir[1].Transmission.has

\* the fatal errors of a decode: those of the registry, of the calibration
\* builder, of the payload readers and of the dimension resolver
FatalErrors ==
    UnsupportedCameraErrors
    \cup {"CalibrationData.gpbenc not found", "Could not determine image dimensions"}

\* C14: every fatal error that a decode raises carries the camera model when
\* a model was detected earlier in that decode, and carries the remediation
\* hint that asks for a report of the unsupported variant.
C14_FatalErrorsCarryModelAndHint ==
    (Ended /\ ir[1].err \in FatalErrors) =>
        /\ ir[1].CameraModel # <<>> => ir[1].errModel # <<>>
        /\ ir[1].err \in UnsupportedCameraErrors

----------------------------------------------------------------------------
(* reader.py: read_is2 *)

\* Path.suffix of a file name: from the last dot, unless that dot is the first
\* or the last character
Suffix(name) ==
    LET dots == {i \in 1..Len(name) : name[i] = 46}
    IN IF dots = {} THEN <<>>
       ELSE IF SetMax(dots) = 1 \/ SetMax(dots) = Len(name) THEN <<>>
       ELSE SubSeq(name, SetMax(dots), Len(name))

\* str.lower on the letters A..Z
Lower(text) == [i \in 1..Len(text) |-> IF text[i] \in 65..90 THEN text[i] + 32 ELSE text[i]]

DotIs2 == <<46, 105, 115, 50>>                \* ".is2"

\* file names handed to read_is2
PathNames ==
    {<<97, 46, 105, 115, 50>>,                        \* a.is2
     <<97, 46, 73, 83, 50>>,                          \* a.IS2
     <<97, 46, 73, 115, 50>>,                         \* a.Is2
     <<97, 46, 116, 120, 116>>,                       \* a.txt
     <<97, 46, 105, 115, 51>>,                        \* a.is3
     <<97, 46, 105, 115, 50, 120>>,                   \* a.is2x
     <<97, 46, 105, 115, 50, 46, 98, 97, 107>>,       \* a.is2.bak
     <<97, 46, 116, 97, 114, 46, 105, 115, 50>>,      \* a.tar.is2
     <<46, 105, 115, 50>>,                            \* .is2
     <<97>>,                                          \* a
     <<97, 46>>,                                      \* a.
     <<105, 115, 50>>}                                \* is2

\* a call read_is2(path): what is on disk at the path is zip[1] (a container,
\* or nothing)
InitRead ==
    /\ zip \in {[p \in Procs |-> IF p = 1 THEN c ELSE IdleZip] : c \in SharedZips \cup {IdleZip}}
    /\ pc = [p \in Procs |-> IF p = 1 THEN "read" ELSE "done"]
    /\ ir = [p \in Procs |-> IrInit]
    /\ fs = FsInit
    /\ xi = [p \in Procs |-> 0]
    /\ foreign = [p \in Procs |-> FALSE]
    /\ fin \in PathNames
    /\ fout = 0

\* read_is2 up to the call of IS2Parser.parse
ReadIs2 ==
    /\ pc[1] = "read"
    /\ IF ~zip[1].exists
       THEN /\ ir' = [ir EXCEPT ![1] = Raise(IrInit, "FileNotFoundError")]
            /\ pc' = [pc EXCEPT ![1] = "done"]
       ELSE IF Lower(Suffix(fin)) = DotIs2
       THEN /\ ir' = ir
            /\ pc' = [pc EXCEPT ![1] = "start"]
       ELSE /\ ir' = [ir EXCEPT ![1] = Raise(IrInit, "ValueError: Unsupported file format")]
            /\ pc' = [pc EXCEPT ![1] = "done"]
    /\ UNCHANGED <<zip, fs, xi, foreign, fin, fout>>

NextRead ==
    \/ ReadIs2
    \/ ParseStep(1)

SpecRead == InitRead /\ [][NextRead]_vars

\* C15: read_is2 raises ValueError ("Unsupported file format") for every path
\* whose extension is not .is2, whether or not a file exists at that path.
C15_UnsupportedFormatAlways ==
    (pc[1] = "done" /\ Lower(Suffix(fin)) # DotIs2) =>
        ir[1].err = "ValueError: Unsupported file format"

----------------------------------------------------------------------------
(* parsers.py: _parse_gpbenc_length_delimited *)

\* v |= (b & 0x7F) << shift; a value of 2^28 or more keeps its low 28 bits and
\* stays at or above 2^28 (no buffer here is that long)
OrBits(v, b, shift) ==
    IF shift <= 21 THEN v + (b % 128) * 2^shift
    ELSE IF b % 128 # 0 /\ v < 268435456 THEN v + 268435456
    ELSE v

\* the loop of read_varint from position pos (0-based); ok is FALSE where it
\* returns None, pos is where it leaves the cursor
RECURSIVE VarintFrom(_, _, _, _)
VarintFrom(raw, pos, v, shift) ==
    IF pos >= Len(raw) THEN [ok |-> FALSE, v |-> 0, pos |-> pos]
    ELSE IF raw[pos + 1] < 128
    THEN [ok |-> TRUE, v |-> OrBits(v, raw[pos + 1], shift), pos |-> pos + 1]
    ELSE IF shift + 7 >= 64 THEN [ok |-> FALSE, v |-> 0, pos |-> pos + 1]
    ELSE VarintFrom(raw, pos + 1, OrBits(v, raw[pos + 1], shift), shift + 7)

\* read_varint
ReadVarint(raw, pos) == VarintFrom(raw, pos, 0, 0)

\* a scanner that never looks inside a span
RecursesNever(length, n) == FALSE

\* line 96: recurse and length > 1024 and length < len(raw)
Recurses(length, n) == length > 1024 /\ length < n

\* the while loop of lines 81-107 from position pos; the result is the list
\* of (offset, length) pairs appended from there on
RECURSIVE ScanFrom(_, _, _)
ScanFrom(raw, pos, base_offset) ==
    LET n == Len(raw)
        tag == ReadVarint(raw, pos)
        wt == tag.v % 8
        length == ReadVarint(raw, tag.pos)
    IN IF pos >= n \/ ~tag.ok THEN <<>>
       ELSE IF wt = 0 THEN ScanFrom(raw, ReadVarint(raw, tag.pos).pos, base_offset)
       ELSE IF wt = 1
            THEN IF tag.pos + 8 > n THEN <<>> ELSE ScanFrom(raw, tag.pos + 8, base_offset)
       ELSE IF wt = 2
            THEN IF ~length.ok \/ length.pos + length.v > n THEN <<>>
                 ELSE << <<base_offset + length.pos, length.v>> >>
                      \o (IF Recurses(length.v, n)
                          THEN ScanFrom(SubSeq(raw, length.pos + 1, length.pos + length.v),
                                        0, base_offset + length.pos)
                          ELSE <<>>)
                      \o ScanFrom(raw, length.pos + length.v, base_offset)
       ELSE IF wt = 5
            THEN IF tag.pos + 4 > n THEN <<>> ELSE ScanFrom(raw, tag.pos + 4, base_offset)
       ELSE <<>>

\* _parse_gpbenc_length_delimited(raw, base_offset, recurse=True)
ParseGpbencLengthDelimited(raw, base_offset) == ScanFrom(raw, 0, base_offset)

\* A buffer is built from a list of fields. A field has its one-byte tag
\* (field number * 8 + wire type), the bytes that follow the tag for wire
\* types 0, 1 and 5 or the payload bytes for wire type 2 (val), and for a
\* payload that is a stream the fields of that stream (sub).
Field(tag, val, sub) == [tag |-> tag, val |-> val, sub |-> sub]

\* the variable-length encoding of v: 7 bits per byte, low bits first
RECURSIVE EncVarint(_)
EncVarint(v) == IF v < 128 THEN <<v>> ELSE <<(v % 128) + 128>> \o EncVarint(v \div 128)

RECURSIVE EncStream(_)
\* the payload bytes of a wire-type-2 field
Body(f) == IF f.sub # <<>> THEN EncStream(f.sub) ELSE f.val

EncField(f) ==
    IF f.tag % 8 = 2 THEN <<f.tag>> \o EncVarint(Len(Body(f))) \o Body(f)
    ELSE <<f.tag>> \o f.val

EncStream(fields) ==
    IF fields = <<>> THEN <<>> ELSE EncField(Head(fields)) \o EncStream(Tail(fields))

Varint5 == Field(8, <<5>>, <<>>)                       \* wire type 0, one byte
VarintLong == Field(8, Fill(9, 255) \o <<1>>, <<>>)    \* wire type 0, ten bytes
Fixed64 == Field(9, Fill(8, 18), <<>>)                 \* wire type 1
Fixed32 == Field(13, Fill(4, 18), <<>>)                \* wire type 5
Bytes(k) == Field(18, Fill(k, 18), <<>>)               \* wire type 2, k bytes
\* 1100 bytes of samples in a span, the first five of them like a field
Samples == Field(18, <<18, 3, 0, 0, 0>> \o Fill(1095, 7), <<>>)
\* a stream of 7 bytes in a span, too short to be looked into
SmallNest == Field(26, <<>>, <<Bytes(3), Varint5>>)
\* a stream of 603 + 422 = 1025 bytes in a span
Nest1025 == Field(26, <<>>, <<Bytes(600), Bytes(419)>>)
\* a stream of 2 + 1028 + 5 bytes in a span, with the span above inside it
NestDeep == Field(34, <<>>, <<Varint5, Nest1025, Fixed32>>)

FieldKinds ==
    {Varint5, VarintLong, Fixed64, Fixed32, Bytes(0), Bytes(3), Bytes(1024), Samples,
     SmallNest, Nest1025, NestDeep}

MaxFields == 2

\* the call _parse_gpbenc_length_delimited(raw)
InitScan ==
    /\ IdlePipeline
    /\ fin \in {[fields |-> f, raw |-> EncStream(f)] : f \in SeqsUpTo(FieldKinds, MaxFields)}
    /\ fout = [done |-> FALSE, out |-> <<>>]

CallParseGpbenc ==
    /\ ~fout.done
    /\ fout' = [done |-> TRUE, out |-> ParseGpbencLengthDelimited(fin.raw, 0)]
    /\ UNCHANGED <<zip, pc, ir, fs, xi, foreign, fin>>

SpecScan == InitScan /\ [][CallParseGpbenc]_vars

\* every payload of more than 1024 bytes is itself a stream of fields
RECURSIVE WellFormed(_)
WellFormed(fields) ==
    \A i \in 1..Len(fields) :
        /\ (fields[i].tag % 8 = 2 /\ Len(Body(fields[i])) > 1024) => fields[i].sub # <<>>
        /\ WellFormed(fields[i].sub)

\* the pairs the fields of a stream stand for when the stream starts at
\* position base of the top-level buffer: one per wire-type-2 field, in
\* stream order, each span of more than 1024 bytes followed by the pairs of
\* the stream inside it
RECURSIVE FieldPairs(_, _)
FieldPairs(fields, base) ==
    IF fields = <<>> THEN <<>>
    ELSE LET f == Head(fields)
             start == base + 1 + Len(EncVarint(Len(Body(f))))
         IN (IF f.tag % 8 # 2 THEN <<>>
             ELSE << <<start, Len(Body(f))>> >>
                  \o (IF Len(Body(f)) > 1024 THEN FieldPairs(f.sub, start) ELSE <<>>))
            \o FieldPairs(Tail(fields), base + Len(EncField(f)))

\* C16: for a buffer that is a well-formed stream of records, the scanner
\* returns one (offset, length) pair per wire-type-2 field, in stream order,
\* with the offset the position of the payload in the top-level buffer; a
\* pair of length above 1024 is followed at once by the pairs of the stream
\* inside it, offsets still absolute; fields of wire type 0, 1 and 5 give no
\* pair and are skipped over one varint, 8 bytes and 4 bytes.
C16_ScannerPairs ==
    (fout.done /\ WellFormed(fin.fields)) => fout.out = FieldPairs(fin.fields, 0)

\* a ten-byte varint, then a span with two levels of streams inside, scanned
C16_Witness ==
    /\ fout.done
    /\ fin.fields = <<VarintLong, NestDeep>>
    /\ Len(fout.out) = 4
    /\ fout.out[4] = <<11 + 3 + 2 + 3 + 603 + 3, 419>>

----------------------------------------------------------------------------
(* camera_profiles.py: names that are not in the registry *)

\* C17: for a buffer of at least 103 bytes in which no registry name occurs,
\* and whose bytes 97..103 trim to a non-empty string of printable
\* characters, detect_model_from_camera_info returns that trimmed string,
\* also when it is not a name of the registry.
C17_UnknownPrintableAccepted ==
    (/\ fout.done
     /\ Len(fin) >= 103
     /\ NoNameInBuffer(fin)
     /\ TrimmedModelBytes(fin) # <<>>
     /\ IsPrintable(TrimmedModelBytes(fin)))
    => fout.out = TrimmedModelBytes(fin)

----------------------------------------------------------------------------
(* The calibration table *)

\* _read_calibration_data has returned a table
CalBuilt == pc[1] = "imginfo"

CalSegs == zip[1].files["cal"].v.segs

\* the layout whose pass filled the table
UsedLayout == IF \E k \in 1..Len(CalSegs) : SegKeys(CalSegs[k], 0) # {} THEN 0 ELSE 1

\* segment k of the scan stores a temperature for count j
Stores(k, j) == j \in SegKeys(CalSegs[k], UsedLayout)

Curve(seg) == [a |-> seg.a, b |-> seg.b, c |-> seg.c]

\* C18: a radiant temperature stored for count j from one curve segment is
\* not overwritten by a segment processed later in the scan: where the count
\* ranges of two usable segments overlap at j, the table holds at j the value
\* computed from the segment met first.
C18_FirstSegmentKept ==
    CalBuilt =>
        \A j \in DOMAIN ir[1].conversion :
            \A k \in 1..Len(CalSegs) :
                (Stores(k, j) /\ \A m \in 1..(k - 1) : ~Stores(m, j))
                    => ir[1].conversion[j] = Curve(CalSegs[k])

\* C19: a curve segment contributes entries to the table only if it is
\* usable: no entry is derived from a segment whose low endpoint is below
\* -180 degrees, whose endpoints are not ordered, whose coefficient a is zero
\* or whose coefficients are the placeholder (-1, -1, -1).
C19_OnlyUsableSegments ==
    CalBuilt =>
        \A j \in DOMAIN ir[1].conversion :
            \E k \in 1..Len(CalSegs) :
                /\ StatedUsable(CalSegs[k])
                /\ Stores(k, j)
                /\ ir[1].conversion[j] = Curve(CalSegs[k])

\* C20: every key of the table built by _read_calibration_data is an integer
\* count in 0..65535, also when the polynomial of a segment is negative or
\* above 65535 at an endpoint.
C20_KeysAreCounts ==
    CalBuilt => DOMAIN ir[1].conversion \subseteq 0..65535

\* the scan of the record stores nothing, in either layout
EmptyScan ==
    \A k \in 1..Len(CalSegs) : SegKeys(CalSegs[k], 0) = {} /\ SegKeys(CalSegs[k], 1) = {}

----------------------------------------------------------------------------
(* The scanned-blob locator *)

\* the call converted a frame that came from CalTempDataRex.gpbenc
ScannedDecoded == Decoded /\ ir[1].geom.path = "scanned"

Blob == zip[1].files["calTemp"].v

\* some span of the buffer has the byte length of candidate size, bare or
\* behind its header
SpanMatches(size) ==
    \E t \in 1..Len(Blob.spans) : \E v \in {0, 1} :
        /\ Blob.spans[t].len = WantedLength(size, v, ir[1].profile.offsetKey)
        /\ Blob.spans[t].off + Blob.spans[t].len <= Blob.len

\* C22: the locator picks the geometry by candidate priority, not by the order
\* in which spans are found: when some span matches the first candidate of
\* the ordered list (metadata, then file name, then profile), the returned
\* dimensions are that candidate, also when an earlier span of the buffer
\* matches a later candidate.
C22_PriorityNotDiscovery ==
    (ScannedDecoded /\ SpanMatches(ir[1].geom.cands[1])) =>
        <<ir[1].data.w, ir[1].data.h>> = ir[1].geom.cands[1]

\* the span the returned samples were cut from
PickedSpan == Blob.spans[ir[1].geom.span]

\* the header samples of the profile's convention for the returned frame
HeaderSkip ==
    IF ir[1].profile.offsetKey = "height" THEN ir[1].data.h ELSE ir[1].data.w

\* C23: a span is accepted for candidate (w, h) exactly when its byte length
\* is w*h*2, or (skip + w*h)*2 with skip = h or w by the profile's header
\* convention; in the second case the first skip samples are dropped, and in
\* both cases the array returned has exactly w*h 16-bit samples from inside
\* that span.
C23_SpanAcceptance ==
    /\ (ScannedDecoded /\ ir[1].geom.span # 0) =>
          /\ ir[1].geom.count = ir[1].data.w * ir[1].data.h
          /\ ir[1].geom.first + 2 * ir[1].geom.count = PickedSpan.off + PickedSpan.len
          /\ \/ /\ PickedSpan.len = ir[1].data.w * ir[1].data.h * 2
                /\ ir[1].geom.first = PickedSpan.off
             \/ /\ PickedSpan.len = (HeaderSkip + ir[1].data.w * ir[1].data.h) * 2
                /\ ir[1].geom.first = PickedSpan.off + 2 * HeaderSkip
    /\ (ScannedDecoded /\ ir[1].geom.span = 0) =>
          \A c \in 1..Len(ir[1].geom.cands) : ~SpanMatches(ir[1].geom.cands[c])

\* a frame was cut from a span behind its header samples
C23_Witness ==
    /\ ScannedDecoded /\ ir[1].geom.kind = "header"
    /\ ir[1].geom.first = PickedSpan.off + 2 * HeaderSkip
    /\ ir[1].geom.count = 320 * 240

\* the scanned-blob reader ran: no span has the length of any candidate, and
\* the first candidate is a frame of at least one sample
TailCase ==
    /\ Ended /\ ir[1].geom.path = "scanned"
    /\ ir[1].geom.cands # <<>>
    /\ ir[1].geom.cands[1][1] * ir[1].geom.cands[1][2] > 0
    /\ \A c \in 1..Len(ir[1].geom.cands) : ~SpanMatches(ir[1].geom.cands[c])

\* C24: when no span matches any candidate size, the locator takes the last
\* width*height*2 bytes of the whole buffer as the payload of the first
\* candidate of the priority list, and fails with the missing-payload error
\* when the buffer is shorter than that; it returns no payload for another
\* candidate size.
C24_TailForFirstCandidate ==
    TailCase =>
        IF Blob.len >= ir[1].geom.cands[1][1] * ir[1].geom.cands[1][2] * 2
        THEN /\ ir[1].err = ""
             /\ <<ir[1].data.w, ir[1].data.h>> = ir[1].geom.cands[1]
             /\ ir[1].geom.first = Blob.len - ir[1].data.w * ir[1].data.h * 2
        ELSE ir[1].err =
               "UnsupportedCamera: could not extract thermal payload from CalTempDataRex.gpbenc"

----------------------------------------------------------------------------
(* parsers.py lines 514-528: the lookup-table conversion of one pixel *)

\* A float is a finite number, a NaN or an infinity.  In this section finite
\* temperatures are whole degrees, emissivity and transmission are halves
\* (2 is 1.0), and the scenes are cold enough for the fourth powers of the
\* absolute temperatures to stay below 2^31.
Fin(v) == [k |-> "fin", v |-> v]
NaN == [k |-> "nan", v |-> 0]
PosInf == [k |-> "inf", v |-> 1]
NegInf == [k |-> "inf", v |-> -1]

\* UnitConversion.c2k and k2c, in whole degrees
C2K(c) == c + 273
K2C(k) == k - 273

\* max(1e-6, min(1.0, x)) in halves: min(1.0, NaN) is 1.0 in Python
ClampHalves(x) ==
    IF x.k = "nan" THEN 2
    ELSE IF x.k = "inf" THEN (IF x.v > 0 THEN 2 ELSE 0)
    ELSE IF x.v >= 2 THEN 2 ELSE x.v

\* c2k(bg) ** 4
Tbg4(bg) ==
    IF bg.k = "nan" THEN NaN
    ELSE IF bg.k = "inf" THEN PosInf
    ELSE Fin(C2K(bg.v) * C2K(bg.v) * C2K(bg.v) * C2K(bg.v))

\* (1 - eps) * tbg4, doubled: 0 * inf is NaN
Reflected(eps, tbg4) ==
    IF tbg4.k = "nan" THEN NaN
    ELSE IF tbg4.k = "inf" THEN (IF eps = 2 THEN NaN ELSE PosInf)
    ELSE Fin((2 - eps) * tbg4.v)

\* x = (traw4 - (1 - eps) * tbg4) / (tau * eps) as a fraction num / den with
\* den > 0
RadianceTerm(t_rad, eps, tau, tbg4) ==
    LET traw4 == C2K(t_rad) * C2K(t_rad) * C2K(t_rad) * C2K(t_rad)
        refl == Reflected(eps, tbg4)
    IN IF refl.k = "nan" THEN [k |-> "nan", num |-> 0, den |-> 1]
       ELSE IF refl.k = "inf" THEN [k |-> "inf", num |-> -1, den |-> 1]
       ELSE [k |-> "fin", num |-> 2 * (2 * traw4 - refl.v), den |-> tau * eps]

\* x <= 0: false for a NaN
NonPositive(x) == x.k # "nan" /\ x.num <= 0

\* x ** 0.25 rounded down, for a finite x > 0
Root4(q) == CHOOSE r \in 0..214 : r * r * r * r <= q /\ (r + 1) * (r + 1) * (r + 1) * (r + 1) > q

\* lines 517-528: the temperature of one pixel; entry is conv.get(int(i))
LutPixel(entry, Emissivity, Transmission, BackgroundTemp) ==
    IF ~entry.has THEN NaN
    ELSE LET x == RadianceTerm(entry.v, ClampHalves(Emissivity),
                               ClampHalves(Transmission), Tbg4(BackgroundTemp))
         IN IF NonPositive(x) THEN NaN
            ELSE IF x.k = "nan" THEN NaN
            ELSE Fin(K2C(Root4(x.num \div x.den)))

\* the table entries, emissivities, transmissions and background
\* temperatures a pixel is converted with
PixelEntries == {None} \cup {Some(t) : t \in {-273, -200, -150, -130}}
PixelEmissivities == {Fin(1), Fin(2), Fin(3), NaN}
PixelTransmissions == {Fin(1), Fin(2)}
PixelBackgrounds == {Fin(-250), Fin(-150), Fin(-125), NaN, PosInf, NegInf}

InitPixel ==
    /\ IdlePipeline
    /\ fin \in [entry : PixelEntries, Emissivity : PixelEmissivities,
                Transmission : PixelTransmissions, BackgroundTemp : PixelBackgrounds]
    /\ fout = [done |-> FALSE, out |-> NaN]

ConvertPixel ==
    /\ ~fout.done
    /\ fout' = [done |-> TRUE,
                out |-> LutPixel(fin.entry, fin.Emissivity, fin.Transmission,
                                 fin.BackgroundTemp)]
    /\ UNCHANGED <<zip, pc, ir, fs, xi, foreign, fin>>

SpecPixel == InitPixel /\ [][ConvertPixel]_vars

\* the corrected radiance term of the pixel that was converted
PixelX ==
    RadianceTerm(fin.entry.v, ClampHalves(fin.Emissivity), ClampHalves(fin.Transmission),
                 Tbg4(fin.BackgroundTemp))

\* C25: in the lookup-table path a pixel is NaN if and only if its count has
\* no entry in the calibration table or the corrected radiance term x is
\* <= 0; every other pixel gets a finite temperature, and a pixel whose
\* count is missing from the table never gets a finite temperature.
C25_NaNIffMissingOrNonPositive ==
    fout.done =>
        /\ (fout.out.k = "nan") <=> (~fin.entry.has \/ NonPositive(PixelX))
        /\ (fin.entry.has /\ ~NonPositive(PixelX)) => fout.out.k = "fin"
        /\ ~fin.entry.has => fout.out.k # "fin"

----------------------------------------------------------------------------
(* parsers.py lines 497-513 and utilities.py: the linear fallback on a frame *)

\* A frame is a non-empty sequence of 16-bit counts.  Temperatures are
\* thousandths of a degree; the slope of a window is taken to a tenth of a
\* degree so that count * slope stays below 2^31.
Slope(T_min, T_max) == (T_max - T_min) \div 100

\* utilities.py scale_uint16_to_temperature
ScaleUint16ToTemperature(raw, T_min, T_max) ==
    [i \in DOMAIN raw |-> T_min + ((raw[i] * Slope(T_min, T_max)) \div 65535) * 100]

\* np.nanmin and np.nanmax of the frame
CountMin(counts) == SetMin({counts[i] : i \in DOMAIN counts})
CountMax(counts) == SetMax({counts[i] : i \in DOMAIN counts})

\* utilities.py counts_to_temperature_linear, called with T_min and T_max
CountsToTemperatureLinear(counts, T_min, T_max, background_temp) ==
    IF CountMax(counts) <= CountMin(counts)
    THEN [i \in DOMAIN counts |-> background_temp]
    ELSE [i \in DOMAIN counts |->
            T_min + (((counts[i] - CountMin(counts)) * Slope(T_min, T_max))
                     \div (CountMax(counts) - CountMin(counts))) * 100]

\* lines 497-511: the linear fallback of a frame
LinearFallback(r, counts) ==
    IF LinearWindow(r).mode = "range"
    THEN ScaleUint16ToTemperature(counts, LinearWindow(r).lo, LinearWindow(r).hi)
    ELSE CountsToTemperatureLinear(counts, LinearWindow(r).lo, LinearWindow(r).hi,
                                   LinearWindow(r).bg)

MaxFrame == 3

\* the counts of the frames and the hints the fallback is given: the range
\* hint of the image-info record, the metadata min/max, the background
FrameCounts == {0, 100, 65535}
RangeHints == {<<None, None>>, <<Some(-20000), Some(150000)>>, <<Some(150000), Some(-20000)>>,
               <<Some(0), Some(0)>>}
MinMaxHints == {<<None, None>>, <<Some(18000), Some(40000)>>, <<Some(0), Some(0)>>,
                <<Some(40000), Some(18000)>>}
BackgroundHints == {None, Some(22000)}

InitLinear ==
    /\ IdlePipeline
    /\ fin \in {[TempRangeMin |-> t[1], TempRangeMax |-> t[2], MinTemp |-> m[1],
                 MaxTemp |-> m[2], BackgroundTemp |-> b, counts |-> c] :
                    t \in RangeHints, m \in MinMaxHints, b \in BackgroundHints,
                    c \in SeqsUpTo(FrameCounts, MaxFrame) \ {<<>>}}
    /\ fout = [done |-> FALSE, out |-> <<>>]

ConvertLinear ==
    /\ ~fout.done
    /\ fout' = [done |-> TRUE, out |-> LinearFallback(fin, fin.counts)]
    /\ UNCHANGED <<zip, pc, ir, fs, xi, foreign, fin>>

SpecLinear == InitLinear /\ [][ConvertLinear]_vars

\* the hints as the claim names them
RangeHintOrdered ==
    fin.TempRangeMin.has /\ fin.TempRangeMax.has /\ fin.TempRangeMin.v < fin.TempRangeMax.v
MinMaxOrdered == fin.MinTemp.has /\ fin.MaxTemp.has /\ fin.MinTemp.v < fin.MaxTemp.v
Background == IF fin.BackgroundTemp.has THEN fin.BackgroundTemp.v ELSE 20000

\* the window the claim's order selects when there is no ordered range hint
StatedWindow ==
    IF MinMaxOrdered THEN <<fin.MinTemp.v, fin.MaxTemp.v>>
    ELSE <<Background - 20000, Background + 35000>>

\* the pixels of count c have temperature t
MapsTo(c, t) == \A i \in DOMAIN fin.counts : fin.counts[i] = c => fout.out[i] = t

\* with an ordered range hint the full range [0, 65535] is mapped to it
FullRangeMapped == MapsTo(0, fin.TempRangeMin.v) /\ MapsTo(65535, fin.TempRangeMax.v)

\* the observed extremes of the frame are mapped to the ends of the window
ObservedRangeMapped ==
    /\ MapsTo(CountMin(fin.counts), StatedWindow[1])
    /\ MapsTo(CountMax(fin.counts), StatedWindow[2])

\* C26 as stated: the linear fallback takes an ordered range hint first and
\* maps [0, 65535] to it; otherwise the window is the metadata min/max when
\* both are present and ordered, otherwise [background-20, background+35],
\* and in these two cases the smallest observed count maps to the low end of
\* the window and the largest to its high end.
C26_WindowOrder ==
    fout.done => IF RangeHintOrdered THEN FullRangeMapped ELSE ObservedRangeMapped

\* C26, amended: the same, for frames that hold at least two different
\* counts; a frame of one single count is filled with the background
\* temperature.
C26_WindowOrderOfVariedFrames ==
    fout.done =>
        IF RangeHintOrdered THEN FullRangeMapped
        ELSE IF CountMin(fin.counts) < CountMax(fin.counts) THEN ObservedRangeMapped
        ELSE MapsTo(CountMin(fin.counts), Background)

\* a varied frame was rescaled into the metadata window although an
\* unordered range hint was present
C26_Witness ==
    /\ fout.done /\ fin.TempRangeMin.has /\ ~RangeHintOrdered /\ MinMaxOrdered
    /\ CountMin(fin.counts) = 100 /\ CountMax(fin.counts) = 65535
    /\ fout.out # <<>> /\ ObservedRangeMapped

----------------------------------------------------------------------------
(* The image paths of the returned record *)

\* the scratch directory holds member m
OnDisk(m) == fs.dir /\ fs.own[m] # 0

\* C27: every thumbnail_path and photo_path that a successful decode
\* returns as non-null names a file that still exists when parse has
\* returned.
C27_ReturnedPathsExist ==
    Decoded =>
        /\ ir[1].thumbnail_path # "" => OnDisk(ir[1].thumbnail_path)
        /\ ir[1].photo_path # "" => OnDisk(ir[1].photo_path)

----------------------------------------------------------------------------
(* The geometry of the returned record *)

\* C28: on every successful decode the record's width and height fields
\* agree with each other (size = [IRWidth, IRHeight]) and with the
\* temperature array, whose shape is (height, width), whatever the source of
\* the dimensions.
C28_GeometrySelfConsistent ==
    Decoded =>
        /\ ir[1].size.has /\ ir[1].IRWidth.has /\ ir[1].IRHeight.has
        /\ ir[1].size.w = ir[1].IRWidth.v /\ ir[1].size.h = ir[1].IRHeight.v
        /\ ir[1].data.w = ir[1].size.w /\ ir[1].data.h = ir[1].size.h

----------------------------------------------------------------------------
(* The header of the fixed array *)

\* the number of samples of IR.data before the first sample of the frame
SkippedSamples == ir[1].geom.first \div 2

\* C29: in the fixed-array path the number of header samples skipped before
\* the pixel payload is the width (by-width convention) or the height
\* (by-height convention) of the frame that is returned, also when the
\* divisor search replaced the geometry.
C29_SkipMatchesReturnedFrame ==
    (Decoded /\ ir[1].geom.path = "fixed") =>
        SkippedSamples = IF ir[1].profile.offsetKey = "height" THEN ir[1].data.h
                         ELSE ir[1].data.w

----------------------------------------------------------------------------
(* parsers.py lines 60-108: the scanner on corrupt buffers *)

\* A corrupt buffer is the encoding of some fields, then bytes that are no
\* field, then (unless the corruption is a truncation) the encoding of more
\* fields.
Corrupt(what, bytes, atEnd) == [what |-> what, bytes |-> bytes, atEnd |-> atEnd]

CorruptKinds ==
    {Corrupt("truncated tag", <<136>>, TRUE),
     Corrupt("truncated length", <<18, 128>>, TRUE),
     Corrupt("truncated value", <<8, 128>>, TRUE),
     Corrupt("truncated fixed64", <<9, 1, 2, 3>>, TRUE),
     Corrupt("truncated fixed32", <<13, 1>>, TRUE),
     Corrupt("over-long tag", Fill(10, 255), FALSE),
     Corrupt("over-long length", <<18>> \o Fill(10, 255), FALSE),
     Corrupt("over-long value", <<8>> \o Fill(10, 255), FALSE),
     Corrupt("length past the end", <<18, 100>>, FALSE),
     Corrupt("wire type 3", <<11>>, FALSE),
     Corrupt("wire type 4", <<12>>, FALSE),
     Corrupt("wire type 7", <<15>>, FALSE)}

\* the fields before and after the corrupt bytes
FieldsBefore == {<<>>} \cup {<<f>> : f \in FieldKinds \ {Samples}}
FieldsAfter == {<<Bytes(3)>>, <<Varint5, SmallNest>>}

InitCorrupt ==
    /\ IdlePipeline
    /\ fin \in {x \in {[fields |-> f, bad |-> b, rest |-> r,
                        raw |-> EncStream(f) \o b.bytes \o EncStream(r)] :
                           f \in FieldsBefore, b \in CorruptKinds,
                           r \in FieldsAfter \cup {<<>>}} :
                    (x.rest = <<>>) <=> x.bad.atEnd}
    /\ fout = [done |-> FALSE, out |-> <<>>]

SpecCorrupt == InitCorrupt /\ [][CallParseGpbenc]_vars

\* read_varint moves the cursor forward from every position of the buffer
VarintAdvances(raw) == \A pos \in 0..(Len(raw) - 1) : ReadVarint(raw, pos).pos > pos

\* C30: the scanner terminates on corrupt buffers: every read moves the
\* cursor forward, a span is looked into only when it is shorter than the
\* buffer, and a truncated varint, an over-long varint, a length that runs
\* past the end of the buffer and an unknown wire type each end the scan
\* with the spans found so far.
C30_CorruptEndsScan ==
    fout.done =>
        /\ VarintAdvances(fin.raw)
        /\ \A length \in 0..Len(fin.raw) : Recurses(length, Len(fin.raw)) => length < Len(fin.raw)
        /\ fout.out = FieldPairs(fin.fields, 0)

====
